---------------------------- MODULE Spec2Model ----------------------------
(***************************************************************************)
(* Simple Logic (SillyTavern extension): the line interpreter              *)
(* evaluateLogic of src/index.js, its expression evaluator and the         *)
(* variable store it reads and writes.                                     *)
(*                                                                         *)
(* Text is modelled by TLA+ strings, handled character by character the    *)
(* way the JavaScript string methods handle it.  A JavaScript value is a   *)
(* record [t, v]: t is "num", "str", "bool", "null" or "nan".  A number    *)
(* is kept as an integer count of halves (v = 2 * the number), so that the *)
(* integers and the fraction .5 are exact; Infinity, exponents and other   *)
(* fractions are outside the alphabet of the scripts that are explored.    *)
(***************************************************************************)
EXTENDS Integers, Sequences, FiniteSets, TLC

(***************************************************************************)
(* JavaScript string primitives                                            *)
(***************************************************************************)
Char(s, k) == IF 1 <= k /\ k <= Len(s) THEN SubSeq(s, k, k) ELSE ""

IsSpace(c) == c \in {" ", "\t", "\r"}

IsDigit(c) == c \in {"0", "1", "2", "3", "4", "5", "6", "7", "8", "9"}

RECURSIVE trimStart(_)
trimStart(s) == IF Len(s) > 0 /\ IsSpace(Char(s, 1)) THEN trimStart(Tail(s)) ELSE s

RECURSIVE trimEnd(_)
trimEnd(s) ==
    IF Len(s) > 0 /\ IsSpace(Char(s, Len(s)))
    THEN trimEnd(SubSeq(s, 1, Len(s) - 1))
    ELSE s

trim(s) == trimEnd(trimStart(s))

startsWith(s, p) == Len(s) >= Len(p) /\ SubSeq(s, 1, Len(p)) = p

endsWith(s, p) == Len(s) >= Len(p) /\ SubSeq(s, Len(s) - Len(p) + 1, Len(s)) = p

\* s.substring(n): the text from the 0-based index n to the end
substring(s, n) == IF n >= Len(s) THEN "" ELSE SubSeq(s, n + 1, Len(s))

\* s.slice(1, -1)
sliceInner(s) == IF Len(s) <= 2 THEN "" ELSE SubSeq(s, 2, Len(s) - 1)

includes(s, p) == \E k \in 0..(Len(s) - Len(p)) : SubSeq(s, k + 1, k + Len(p)) = p

\* s.indexOf(p), 0-based, -1 when p does not occur
indexOf(s, p) ==
    IF includes(s, p)
    THEN CHOOSE k \in 0..(Len(s) - Len(p)) :
            /\ SubSeq(s, k + 1, k + Len(p)) = p
            /\ \A j \in 0..(k - 1) : SubSeq(s, j + 1, j + Len(p)) # p
    ELSE -1

\* s.replace(/p/g, r) for a literal pattern p; k is the index of the first p
RECURSIVE replaceFrom(_, _, _, _)
replaceFrom(s, p, r, k) ==
    IF Len(p) = 0 \/ k < 0 THEN s
    ELSE SubSeq(s, 1, k) \o r
           \o replaceFrom(substring(s, k + Len(p)), p, r, indexOf(substring(s, k + Len(p)), p))

replaceAll(s, p, r) == replaceFrom(s, p, r, indexOf(s, p))

LowerLetters == "abcdefghijklmnopqrstuvwxyz"
UpperLetters == "ABCDEFGHIJKLMNOPQRSTUVWXYZ"

\* the printable ASCII characters (without the backquote) in code-unit order
AsciiChars == " !\"#$%&'()*+,-./0123456789:;<=>?@ABCDEFGHIJKLMNOPQRSTUVWXYZ[\\]^_abcdefghijklmnopqrstuvwxyz{|}~"

\* position of the character c in the string alphabet, 0 when absent
Pos(c, alphabet) ==
    IF \E k \in 1..Len(alphabet) : Char(alphabet, k) = c
    THEN CHOOSE k \in 1..Len(alphabet) : Char(alphabet, k) = c
    ELSE 0

UpChar(c) == LET k == Pos(c, LowerLetters) IN IF k > 0 THEN Char(UpperLetters, k) ELSE c
LowChar(c) == LET k == Pos(c, UpperLetters) IN IF k > 0 THEN Char(LowerLetters, k) ELSE c

RECURSIVE toUpperCase(_)
toUpperCase(s) == IF Len(s) = 0 THEN "" ELSE UpChar(Head(s)) \o toUpperCase(Tail(s))

RECURSIVE toLowerCase(_)
toLowerCase(s) == IF Len(s) = 0 THEN "" ELSE LowChar(Head(s)) \o toLowerCase(Tail(s))

\* s < t in the code-unit order JavaScript uses to compare two strings
RECURSIVE strLess(_, _)
strLess(s, t) ==
    IF Len(t) = 0 THEN FALSE
    ELSE IF Len(s) = 0 THEN TRUE
    ELSE IF Head(s) = Head(t) THEN strLess(Tail(s), Tail(t))
    ELSE Pos(Head(s), AsciiChars) < Pos(Head(t), AsciiChars)

(***************************************************************************)
(* JavaScript values and numeric conversion                                *)
(***************************************************************************)
Num(n) == [t |-> "num", v |-> n]
Str(s) == [t |-> "str", v |-> s]
Bool(b) == [t |-> "bool", v |-> b]
Null == [t |-> "null", v |-> 0]
NaN == [t |-> "nan", v |-> 0]

\* a == b on two model values, safe across types
SameValue(a, b) == a.t = b.t /\ a.v = b.v

DigitVal(c) == Pos(c, "0123456789") - 1

\* number of digits at the front of s
RECURSIVE DigitRun(_)
DigitRun(s) == IF Len(s) > 0 /\ IsDigit(Head(s)) THEN 1 + DigitRun(Tail(s)) ELSE 0

\* value of a string of digits
RECURSIVE DigitsVal(_)
DigitsVal(s) ==
    IF Len(s) = 0 THEN 0
    ELSE 10 * DigitsVal(SubSeq(s, 1, Len(s) - 1)) + DigitVal(Char(s, Len(s)))

\* the halves in a fraction's digits: 1 for 5, 50, ...; 0 for 0, 00, ...
FracHalves(digits) == IF Len(digits) > 0 /\ Head(digits) = "5" THEN 1 ELSE 0

\* [len, v] of an unsigned numeric prefix: n integer digits of body, then a
\* dot and m fraction digits (afterDot is the text after the n digits)
UnsignedPrefix(body, n, afterDot, m) ==
    IF n = 0 /\ m = 0 THEN [len |-> 0, v |-> 0]
    ELSE [len |-> n + (IF startsWith(afterDot, ".") THEN 1 + m ELSE 0),
          v |-> 2 * DigitsVal(SubSeq(body, 1, n)) + FracHalves(SubSeq(afterDot, 2, m + 1))]

FractionDigits(afterDot) ==
    IF startsWith(afterDot, ".") THEN DigitRun(substring(afterDot, 1)) ELSE 0

UnsignedAfter(body, n, afterDot) == UnsignedPrefix(body, n, afterDot, FractionDigits(afterDot))

UnsignedNumber(body, n) == UnsignedAfter(body, n, substring(body, n))

Signed(p, signLen, negative) ==
    IF p.len = 0 THEN p
    ELSE [len |-> signLen + p.len, v |-> IF negative THEN 0 - p.v ELSE p.v]

\* The numeric prefix parseFloat reads: [len |-> characters consumed (0 when
\* s does not start with a number), v |-> its value in halves]
NumericPrefix(s) ==
    IF startsWith(s, "-") THEN Signed(UnsignedNumber(Tail(s), DigitRun(Tail(s))), 1, TRUE)
    ELSE IF startsWith(s, "+")
    THEN Signed(UnsignedNumber(Tail(s), DigitRun(Tail(s))), 1, FALSE)
    ELSE UnsignedNumber(s, DigitRun(s))

PrefixValue(p) == IF p.len = 0 THEN NaN ELSE Num(p.v)

\* parseFloat(s): the longest numeric prefix after leading blanks, else NaN
parseFloat(s) == PrefixValue(NumericPrefix(trimStart(s)))

WholeValue(t, p) ==
    IF Len(t) = 0 THEN Num(0)
    ELSE IF p.len = Len(t) THEN Num(p.v)
    ELSE NaN

TrimmedToNumber(t) == WholeValue(t, NumericPrefix(t))

\* Number(s) for a string: the whole trimmed text must be a number; "" is 0
StringToNumber(s) == TrimmedToNumber(trim(s))

\* ToNumber of a model value
ToNumber(x) ==
    CASE x.t = "num" -> x
      [] x.t = "str" -> StringToNumber(x.v)
      [] x.t = "bool" -> Num(IF x.v THEN 2 ELSE 0)
      [] x.t = "null" -> Num(0)
      [] OTHER -> NaN

isNaN(x) == ToNumber(x).t = "nan"

isFinite(x) == ToNumber(x).t = "num"

RECURSIVE NatToString(_)
NatToString(n) ==
    IF n < 10 THEN Char("0123456789", n + 1)
    ELSE NatToString(n \div 10) \o Char("0123456789", (n % 10) + 1)

\* String(x) of a number kept in halves
NumberToString(h) ==
    LET a == IF h < 0 THEN 0 - h ELSE h
    IN  (IF h < 0 THEN "-" ELSE "")
          \o NatToString(a \div 2)
          \o (IF a % 2 = 1 THEN ".5" ELSE "")

\* value.toString() / String(value)
toString(x) ==
    CASE x.t = "num" -> NumberToString(x.v)
      [] x.t = "bool" -> (IF x.v THEN "true" ELSE "false")
      [] x.t = "str" -> x.v
      [] x.t = "null" -> "null"
      [] OTHER -> "NaN"

numEquals(x, y) == x.t = "num" /\ y.t = "num" /\ x.v = y.v
numLess(x, y) == x.t = "num" /\ y.t = "num" /\ x.v < y.v
numLessOrEqual(x, y) == x.t = "num" /\ y.t = "num" /\ x.v <= y.v

\* a == b of JavaScript (loose equality) on numbers, strings, booleans and
\* null (null equals nothing but itself)
looseEquals(a, b) ==
    IF a.t = b.t
    THEN a.t # "nan" /\ a.v = b.v
    ELSE IF a.t = "null" \/ b.t = "null" THEN FALSE
    ELSE numEquals(ToNumber(a), ToNumber(b))

\* a < b of JavaScript: code-unit order on two strings, numeric otherwise
lessThan(a, b) ==
    IF a.t = "str" /\ b.t = "str" THEN strLess(a.v, b.v)
    ELSE numLess(ToNumber(a), ToNumber(b))

\* a <= b of JavaScript
lessOrEqual(a, b) ==
    IF a.t = "str" /\ b.t = "str" THEN ~strLess(b.v, a.v)
    ELSE numLessOrEqual(ToNumber(a), ToNumber(b))

(***************************************************************************)
(* The variable store: context.variables.global, with the fallback         *)
(* window.global_variables.  A store is a function from the names that are *)
(* set to the strings kept for them; env tells which stores exist.  The    *)
(* interpreter state st carries both stores.                               *)
(***************************************************************************)
\* parsed is parseFloat(val), finite is isFinite(val)
normalized(val, parsed, finite) ==
    IF parsed.t = "num" /\ finite THEN parsed
    ELSE IF val = "true" THEN Bool(TRUE)
    ELSE IF val = "false" THEN Bool(FALSE)
    ELSE Str(val)

normalizeValue(val) == normalized(val, parseFloat(val), isFinite(Str(val)))

getVariable(varName, st, env) ==
    IF env.hasGlobal /\ varName \in DOMAIN st.global
    THEN normalizeValue(st.global[varName])
    ELSE IF env.hasWindow /\ varName \in DOMAIN st.window
    THEN normalizeValue(st.window[varName])
    ELSE Null

\* storage[key] = val
StorePut(storage, key, val) ==
    [k \in (DOMAIN storage) \cup {key} |-> IF k = key THEN val ELSE storage[k]]

setVariable(varName, value, st, env) ==
    LET valStr == toString(value)
    IN  IF env.hasGlobal THEN [st EXCEPT !.global = StorePut(st.global, varName, valStr)]
        ELSE IF env.hasWindow
        THEN [st EXCEPT !.window = StorePut(st.window, varName, valStr)]
        ELSE st

(***************************************************************************)
(* Collaborators of the host: macro substitution and the chat log          *)
(***************************************************************************)
\* substituteParams(line): every {{name}} of env.macros is replaced by its text
RECURSIVE ExpandMacros(_, _)
ExpandMacros(line, macros) ==
    IF Len(macros) = 0 THEN line
    ELSE ExpandMacros(replaceAll(line, "{{" \o Head(macros)[1] \o "}}", Head(macros)[2]),
                      Tail(macros))

substituteParams(line, env) == ExpandMacros(line, env.macros)

\* the text of the last chat message, its double quotes made single
lastMessage(chat) == IF Len(chat) > 0 THEN replaceAll(chat[Len(chat)], "\"", "'") ELSE ""

\* the LAST_MESSAGE keyword of a condition becomes the quoted last chat message
withLastMessage(conditionStr, env) ==
    IF includes(conditionStr, "LAST_MESSAGE")
    THEN replaceAll(conditionStr, "LAST_MESSAGE", "\"" \o lastMessage(env.chat) \o "\"")
    ELSE conditionStr

(***************************************************************************)
(* parseExpression                                                         *)
(***************************************************************************)
IsOpChar(c) == c \in {"=", ">", "<", "!"}

RECURSIVE OpRun(_)
OpRun(s) == IF Len(s) > 0 /\ IsOpChar(Head(s)) THEN 1 + OpRun(Tail(s)) ELSE 0

RECURSIVE NonSpaceRun(_)
NonSpaceRun(s) == IF Len(s) > 0 /\ ~IsSpace(Head(s)) THEN 1 + NonSpaceRun(Tail(s)) ELSE 0

\* exprString.match(/"([^"]*)"|([=><!]+)|(\S+)/g): at each position the first
\* alternative that matches wins, and \S+ runs to the next blank.
\* close is the index in Tail(s) of the next double quote.
RECURSIVE matchFrom(_, _)
matchFrom(s, close) ==
    IF Len(s) = 0 THEN <<>>
    ELSE IF Head(s) = "\"" /\ close >= 0
    THEN <<SubSeq(s, 1, close + 2)>>
           \o matchFrom(substring(s, close + 2), indexOf(substring(s, close + 3), "\""))
    ELSE IF IsOpChar(Head(s))
    THEN <<SubSeq(s, 1, OpRun(s))>>
           \o matchFrom(substring(s, OpRun(s)), indexOf(substring(s, OpRun(s) + 1), "\""))
    ELSE IF ~IsSpace(Head(s))
    THEN <<SubSeq(s, 1, NonSpaceRun(s))>>
           \o matchFrom(substring(s, NonSpaceRun(s)),
                        indexOf(substring(s, NonSpaceRun(s) + 1), "\""))
    ELSE matchFrom(Tail(s), indexOf(substring(s, 2), "\""))

matchTokens(s) == matchFrom(s, indexOf(substring(s, 1), "\""))

stripGetvar(a) == IF startsWith(a, "getvar::") THEN substring(a, 8) ELSE a
stripClose(b) == IF endsWith(b, "}}") THEN SubSeq(b, 1, Len(b) - 2) ELSE b

\* {{getvar::name}} or {{name}} -> name
cleanVal(val) ==
    IF startsWith(val, "{{")
    THEN trim(stripClose(stripGetvar(trimStart(substring(val, 2)))))
    ELSE val

\* orZero with the fault of handing the looked-up value on as it is
orZero_leaking(lookedUp) == lookedUp

\* lookedUp === null || lookedUp === undefined ? 0 : lookedUp
orZero(lookedUp) == IF lookedUp.t = "null" THEN Num(0) ELSE lookedUp

\* parsed is parseFloat(val)
resolveString(val, parsed, st, env, rnd) ==
    IF startsWith(val, "\"") /\ endsWith(val, "\"") THEN Str(sliceInner(val))
    ELSE IF parsed.t = "num" THEN parsed
    ELSE IF toLowerCase(val) = "true" THEN Bool(TRUE)
    ELSE IF toLowerCase(val) = "false" THEN Bool(FALSE)
    ELSE IF toUpperCase(val) = "RANDOM" THEN Num(rnd)
    ELSE orZero(getVariable(cleanVal(val), st, env))

\* resolve(val): a literal, a draw of Math.random() (rnd, in halves) or a variable
resolve(val, st, env, rnd) ==
    IF val.t # "str" THEN val
    ELSE resolveString(val.v, parseFloat(val.v), st, env, rnd)

\* applyOperator with the fault of a CONTAINS / HAS that minds the letter case
applyOperator_caseSensitive(op, v1, v2) ==
    CASE op = ">" -> lessThan(v2, v1)
      [] op = "<" -> lessThan(v1, v2)
      [] op = ">=" -> lessOrEqual(v2, v1)
      [] op = "<=" -> lessOrEqual(v1, v2)
      [] op \in {"==", "="} -> looseEquals(v1, v2)
      [] op = "!=" -> ~looseEquals(v1, v2)
      [] op \in {"CONTAINS", "HAS"} -> includes(toString(v1), toString(v2))
      [] OTHER -> FALSE

\* applyOperator with the fault of matching the operator in any letter case
applyOperator_anyCase(op, v1, v2) ==
    CASE op = ">" -> lessThan(v2, v1)
      [] op = "<" -> lessThan(v1, v2)
      [] op = ">=" -> lessOrEqual(v2, v1)
      [] op = "<=" -> lessOrEqual(v1, v2)
      [] op \in {"==", "="} -> looseEquals(v1, v2)
      [] op = "!=" -> ~looseEquals(v1, v2)
      [] toUpperCase(op) \in {"CONTAINS", "HAS"} ->
            includes(toLowerCase(toString(v1)), toLowerCase(toString(v2)))
      [] OTHER -> FALSE

\* the switch on the operator
applyOperator(op, v1, v2) ==
    CASE op = ">" -> lessThan(v2, v1)
      [] op = "<" -> lessThan(v1, v2)
      [] op = ">=" -> lessOrEqual(v2, v1)
      [] op = "<=" -> lessOrEqual(v1, v2)
      [] op \in {"==", "="} -> looseEquals(v1, v2)
      [] op = "!=" -> ~looseEquals(v1, v2)
      [] op \in {"CONTAINS", "HAS"} ->
            includes(toLowerCase(toString(v1)), toLowerCase(toString(v2)))
      [] OTHER -> FALSE

\* operands with the fault of no default for a missing left operand
operands_strict(parts) ==
    IF Len(parts) >= 3
    THEN <<Str(parts[1]), parts[2], Str(parts[3])>>
    ELSE <<>>

\* operands with the fault of taking the last token as the right operand
operands_last(parts) ==
    IF Len(parts) = 2 /\ OpRun(parts[1]) = Len(parts[1])
    THEN <<Num(0), parts[1], Str(parts[2])>>
    ELSE IF Len(parts) >= 3
    THEN <<Str(parts[1]), parts[2], Str(parts[Len(parts)])>>
    ELSE <<>>

\* <<leftVal, op, rightVal>> taken from the tokens, <<>> when they are rejected
operands(parts) ==
    IF Len(parts) = 2 /\ OpRun(parts[1]) = Len(parts[1])
    THEN <<Num(0), parts[1], Str(parts[2])>>
    ELSE IF Len(parts) >= 3
    THEN <<Str(parts[1]), parts[2], Str(parts[3])>>
    ELSE <<>>

compare(t, st, env, rnd) ==
    IF Len(t) = 0 THEN FALSE
    ELSE applyOperator(t[2], resolve(t[1], st, env, rnd[1]), resolve(t[3], st, env, rnd[2]))

\* rnd = <<draw for the left operand, draw for the right operand>>
parseExpression(exprString, st, env, rnd) ==
    compare(operands(matchTokens(exprString)), st, env, rnd)

(***************************************************************************)
(* evaluateLogic: the interpreter state and the body of its loop           *)
(*                                                                         *)
(* st = [executionStack, outputBuffer, global, window, evals, substs];     *)
(* evals counts the calls of parseExpression and substs the calls of       *)
(* substituteParams made so far.                                           *)
(***************************************************************************)
\* script.split(/\r?\n/); k is the index of the first newline
RECURSIVE splitAt(_, _)
splitAt(script, k) ==
    IF k < 0 THEN <<script>>
    ELSE <<SubSeq(script, 1, k)>>
           \o splitAt(substring(script, k + 1), indexOf(substring(script, k + 1), "\n"))

splitNewlines(script) == splitAt(script, indexOf(script, "\n"))

keepNonEmpty(l) == IF Len(l) > 0 THEN <<l>> ELSE <<>>

RECURSIVE trimmedNonEmpty(_)
trimmedNonEmpty(ls) ==
    IF Len(ls) = 0 THEN <<>>
    ELSE keepNonEmpty(trim(Head(ls))) \o trimmedNonEmpty(Tail(ls))

\* the lines of a script: trimmed, the empty ones dropped
splitLines(script) == trimmedNonEmpty(splitNewlines(script))

\* the frame the stack starts with
BaseFrame == [ignore |-> FALSE, metCondition |-> FALSE]

\* IgnoredFrame with the fault of pushing an active frame in an ignored scope
IgnoredFrame_active == [ignore |-> FALSE, metCondition |-> TRUE]

\* IgnoredFrame with the fault of a frame on which no branch counts as matched
IgnoredFrame_unmatched == [ignore |-> TRUE, metCondition |-> FALSE]

\* the frame pushed by an IF met in an ignored scope
IgnoredFrame == [ignore |-> TRUE, metCondition |-> TRUE]

\* currentScope with the fault of looking at the bottom of the stack
currentScope_bottom(executionStack) == executionStack[1]

\* currentScope with the fault of looking one frame below the top
currentScope_below(executionStack) ==
    executionStack[IF Len(executionStack) > 1 THEN Len(executionStack) - 1 ELSE 1]

currentScope(executionStack) == executionStack[Len(executionStack)]

push(st, frame) == [st EXCEPT !.executionStack = Append(@, frame)]

\* assignments to the fields of prevScope, the top frame
setTop(st, frame) == [st EXCEPT !.executionStack[Len(st.executionStack)] = frame]

\* The check made on the raw line (upperLine: trimmed, in upper case) while
\* the current scope is ignored: "push" for a nested IF, "skip" for a line
\* that is no control line, "fall" when the line goes on to substitution
\* and dispatch.
ignoredPreCheck(scope, upperLine) ==
    IF ~scope.ignore THEN "fall"
    ELSE IF startsWith(upperLine, "IF ") THEN "push"
    ELSE IF startsWith(upperLine, "ELSE IF ") THEN "fall"
    ELSE IF ~startsWith(upperLine, "ELSE") /\ upperLine # "END" THEN "skip"
    ELSE "fall"

counted(st) == [st EXCEPT !.evals = @ + 1]

\* pushResult with the fault of not recording that the IF branch matched
pushResult_unrecorded(st, result) == push(st, [ignore |-> ~result, metCondition |-> FALSE])

\* executionStack.push({ ignore: !result, metCondition: result })
pushResult(st, result) == push(st, [ignore |-> ~result, metCondition |-> result])

\* CONTROL FLOW: IF
evaluateLogic_IF(st, line, env, rnd) ==
    IF currentScope(st.executionStack).ignore THEN push(st, IgnoredFrame)
    ELSE pushResult(counted(st),
                    parseExpression(withLastMessage(trim(substring(line, 3)), env),
                                    st, env, rnd))

\* prevScope.ignore = !result; if (result) prevScope.metCondition = true
branchResult(st, prevScope, result) ==
    setTop(st, [ignore |-> ~result,
                metCondition |-> IF result THEN TRUE ELSE prevScope.metCondition])

\* ELSE IF with the fault of evaluating its condition after a branch has matched
evaluateLogic_ELSE_IF_always(st, line, env, rnd) ==
    IF Len(st.executionStack) <= 1
    THEN [st EXCEPT !.outputBuffer = @ \o "[Error: ELSE IF without IF]"]
    ELSE IF st.executionStack[Len(st.executionStack) - 1].ignore
    THEN setTop(st, [ignore |-> TRUE, metCondition |-> TRUE])
    ELSE branchResult(counted(st), currentScope(st.executionStack),
                      parseExpression(withLastMessage(trim(substring(line, 8)), env),
                                      st, env, rnd))

\* ELSE IF with the fault of having no depth guard
evaluateLogic_ELSE_IF_unguarded(st, line, env, rnd) ==
    IF Len(st.executionStack) > 1 /\ st.executionStack[Len(st.executionStack) - 1].ignore
    THEN setTop(st, [ignore |-> TRUE, metCondition |-> TRUE])
    ELSE IF currentScope(st.executionStack).metCondition
    THEN setTop(st, [currentScope(st.executionStack) EXCEPT !.ignore = TRUE])
    ELSE branchResult(counted(st), currentScope(st.executionStack),
                      parseExpression(withLastMessage(trim(substring(line, 8)), env),
                                      st, env, rnd))

\* CONTROL FLOW: ELSE IF
evaluateLogic_ELSE_IF(st, line, env, rnd) ==
    IF Len(st.executionStack) <= 1
    THEN [st EXCEPT !.outputBuffer = @ \o "[Error: ELSE IF without IF]"]
    ELSE IF st.executionStack[Len(st.executionStack) - 1].ignore
    THEN setTop(st, [ignore |-> TRUE, metCondition |-> TRUE])
    ELSE IF currentScope(st.executionStack).metCondition
    THEN setTop(st, [currentScope(st.executionStack) EXCEPT !.ignore = TRUE])
    ELSE branchResult(counted(st), currentScope(st.executionStack),
                      parseExpression(withLastMessage(trim(substring(line, 8)), env),
                                      st, env, rnd))

\* ELSE with the fault of having no depth guard
evaluateLogic_ELSE_unguarded(st) ==
    IF Len(st.executionStack) > 1 /\ st.executionStack[Len(st.executionStack) - 1].ignore
    THEN setTop(st, [currentScope(st.executionStack) EXCEPT !.ignore = TRUE])
    ELSE IF currentScope(st.executionStack).metCondition
    THEN setTop(st, [currentScope(st.executionStack) EXCEPT !.ignore = TRUE])
    ELSE setTop(st, [ignore |-> FALSE, metCondition |-> TRUE])

\* ELSE with the fault of opening its branch whether or not one has matched
evaluateLogic_ELSE_reopening(st) ==
    IF Len(st.executionStack) <= 1
    THEN [st EXCEPT !.outputBuffer = @ \o "[Error: ELSE without IF]"]
    ELSE IF st.executionStack[Len(st.executionStack) - 1].ignore
    THEN setTop(st, [currentScope(st.executionStack) EXCEPT !.ignore = TRUE])
    ELSE setTop(st, [ignore |-> FALSE, metCondition |-> TRUE])

\* CONTROL FLOW: ELSE
evaluateLogic_ELSE(st) ==
    IF Len(st.executionStack) <= 1
    THEN [st EXCEPT !.outputBuffer = @ \o "[Error: ELSE without IF]"]
    ELSE IF st.executionStack[Len(st.executionStack) - 1].ignore
    THEN setTop(st, [currentScope(st.executionStack) EXCEPT !.ignore = TRUE])
    ELSE IF currentScope(st.executionStack).metCondition
    THEN setTop(st, [currentScope(st.executionStack) EXCEPT !.ignore = TRUE])
    ELSE setTop(st, [ignore |-> FALSE, metCondition |-> TRUE])

\* END with the fault of popping whatever the depth
evaluateLogic_END_unguarded(st) ==
    [st EXCEPT !.executionStack = SubSeq(@, 1, Len(@) - 1)]

\* CONTROL FLOW: END
evaluateLogic_END(st) ==
    IF Len(st.executionStack) > 1
    THEN [st EXCEPT !.executionStack = SubSeq(@, 1, Len(@) - 1)]
    ELSE st

\* if (text.startsWith('"') && text.endsWith('"')) text = text.slice(1, -1)
stripQuotes(text) ==
    IF startsWith(text, "\"") /\ endsWith(text, "\"") THEN sliceInner(text) ELSE text

\* SAY with the fault of appending no separator
evaluateLogic_SAY_unseparated(st, line) ==
    IF ~currentScope(st.executionStack).ignore
    THEN [st EXCEPT !.outputBuffer = @ \o stripQuotes(trim(substring(line, 4)))]
    ELSE st

\* SAY with the fault of assigning the text to the buffer
evaluateLogic_SAY_overwriting(st, line) ==
    IF ~currentScope(st.executionStack).ignore
    THEN [st EXCEPT !.outputBuffer = stripQuotes(trim(substring(line, 4))) \o " "]
    ELSE st

\* COMMAND: SAY
evaluateLogic_SAY(st, line) ==
    IF ~currentScope(st.executionStack).ignore
    THEN [st EXCEPT !.outputBuffer = @ \o stripQuotes(trim(substring(line, 4))) \o " "]
    ELSE st

\* text.split(sep); k is the index of the first sep
RECURSIVE splitFrom(_, _, _)
splitFrom(text, sep, k) ==
    IF k < 0 THEN <<text>>
    ELSE <<SubSeq(text, 1, k)>>
           \o splitFrom(substring(text, k + Len(sep)), sep,
                        indexOf(substring(text, k + Len(sep)), sep))

splitOn(text, sep) == splitFrom(text, sep, indexOf(text, sep))

\* setParts with the fault of not trimming the name
setParts_untrimmed(st, parts, env) ==
    IF Len(parts) = 2
    THEN setVariable(parts[1], Str(stripQuotes(trim(parts[2]))), st, env)
    ELSE st

setParts(st, parts, env) ==
    IF Len(parts) = 2
    THEN setVariable(trim(parts[1]), Str(stripQuotes(trim(parts[2]))), st, env)
    ELSE st

\* COMMAND: SET
evaluateLogic_SET(st, line, env) ==
    IF ~currentScope(st.executionStack).ignore
    THEN setParts(st, splitOn(substring(line, 4), "="), env)
    ELSE st

\* parsed is parseFloat(varValueRaw), finite is isFinite(varValueRaw)
inferred(varValueRaw, parsed, finite) ==
    IF startsWith(varValueRaw, "\"") /\ endsWith(varValueRaw, "\"")
    THEN Str(sliceInner(varValueRaw))
    ELSE IF parsed.t = "num" /\ finite THEN parsed
    ELSE IF toLowerCase(varValueRaw) = "true" THEN Bool(TRUE)
    ELSE IF toLowerCase(varValueRaw) = "false" THEN Bool(FALSE)
    ELSE Str(varValueRaw)

\* the type inference of SETVAR
inferValue(varValueRaw) ==
    inferred(varValueRaw, parseFloat(varValueRaw), isFinite(Str(varValueRaw)))

setvarContent(st, content, firstSpace, env) ==
    IF firstSpace # -1
    THEN setVariable(trim(SubSeq(content, 1, firstSpace)),
                     inferValue(trim(substring(content, firstSpace + 1))), st, env)
    ELSE st

setvarOf(st, content, env) == setvarContent(st, content, indexOf(content, " "), env)

\* SETVAR with the fault of echoing its argument to the output
evaluateLogic_SETVAR_echoing(st, line, env) ==
    IF ~currentScope(st.executionStack).ignore
    THEN setvarOf([st EXCEPT !.outputBuffer = @ \o trim(substring(line, 7)) \o " "],
                  trim(substring(line, 7)), env)
    ELSE st

\* COMMAND: SETVAR
evaluateLogic_SETVAR(st, line, env) ==
    IF ~currentScope(st.executionStack).ignore
    THEN setvarOf(st, trim(substring(line, 7)), env)
    ELSE st

\* the directive a line (upperLine: trimmed, in upper case) is dispatched to:
\* the first prefix that matches, in the order of the if / else-if chain
directiveOf(upperLine) ==
    IF startsWith(upperLine, "IF ") THEN "IF"
    ELSE IF startsWith(upperLine, "ELSE IF ") THEN "ELSE IF"
    ELSE IF startsWith(upperLine, "ELSE") THEN "ELSE"
    ELSE IF upperLine = "END" THEN "END"
    ELSE IF startsWith(upperLine, "SAY ") THEN "SAY"
    ELSE IF startsWith(upperLine, "SET ") THEN "SET"
    ELSE IF startsWith(upperLine, "SETVAR ") THEN "SETVAR"
    ELSE "none"

directive(line) == directiveOf(toUpperCase(trim(line)))

handle(d, st, line, env, rnd) ==
    CASE d = "IF" -> evaluateLogic_IF(st, line, env, rnd)
      [] d = "ELSE IF" -> evaluateLogic_ELSE_IF(st, line, env, rnd)
      [] d = "ELSE" -> evaluateLogic_ELSE(st)
      [] d = "END" -> evaluateLogic_END(st)
      [] d = "SAY" -> evaluateLogic_SAY(st, line)
      [] d = "SET" -> evaluateLogic_SET(st, line, env)
      [] d = "SETVAR" -> evaluateLogic_SETVAR(st, line, env)
      [] OTHER -> st

dispatch(st, line, env, rnd) == handle(directive(line), st, line, env, rnd)

afterPreCheck(pre, st, rawLine, env, rnd) ==
    CASE pre = "push" -> push(st, IgnoredFrame)
      [] pre = "skip" -> st
      [] OTHER -> dispatch([st EXCEPT !.substs = @ + 1],
                           substituteParams(rawLine, env), env, rnd)

\* one iteration of the for loop on the line rawLine
evaluateLogic_line(st, rawLine, env, rnd) ==
    afterPreCheck(ignoredPreCheck(currentScope(st.executionStack),
                                  toUpperCase(trim(rawLine))),
                  st, rawLine, env, rnd)

(***************************************************************************)
(* Exceptions.  evaluateLogic has no try / catch: what a collaborator      *)
(* throws leaves the call.  env.failing names the collaborators that       *)
(* throw: "get" and "set" (the Map-like context.variables.global, whose    *)
(* get / set method throws) and "substituteParams" (the macro engine,      *)
(* which throws on a line that holds a macro).                             *)
(***************************************************************************)
\* the message of the Error a failing collaborator throws
ErrorMessage(collaborator) == collaborator \o " failed"

\* val is resolved by a call of getVariable; parsed is parseFloat(val)
isLookup(val, parsed) ==
    /\ ~(startsWith(val, "\"") /\ endsWith(val, "\""))
    /\ parsed.t # "num"
    /\ toLowerCase(val) \notin {"true", "false"}
    /\ toUpperCase(val) # "RANDOM"

looksUp(val) == val.t = "str" /\ isLookup(val.v, parseFloat(val.v))

\* parseExpression calls getVariable for one of the operands t
lookups(t) == Len(t) = 3 /\ (looksUp(t[1]) \/ looksUp(t[3]))

\* storage.get(key) throws in getVariable
getThrows(env) == env.hasGlobal /\ "get" \in env.failing

\* storage.set(key, val) throws in setVariable
setThrows(env) == env.hasGlobal /\ "set" \in env.failing

\* the message thrown out of parseExpression(conditionStr), "" when it returns
thrown_parseExpression(conditionStr, env) ==
    IF getThrows(env) /\ lookups(operands(matchTokens(conditionStr)))
    THEN ErrorMessage("get")
    ELSE ""

thrown_IF(st, line, env) ==
    IF currentScope(st.executionStack).ignore THEN ""
    ELSE thrown_parseExpression(withLastMessage(trim(substring(line, 3)), env), env)

thrown_ELSE_IF(st, line, env) ==
    IF Len(st.executionStack) <= 1 THEN ""
    ELSE IF st.executionStack[Len(st.executionStack) - 1].ignore THEN ""
    ELSE IF currentScope(st.executionStack).metCondition THEN ""
    ELSE thrown_parseExpression(withLastMessage(trim(substring(line, 8)), env), env)

\* thrown_SET with the fault of reading parts[1] whatever the number of parts
thrown_SET_unchecked(st, line, env) ==
    IF currentScope(st.executionStack).ignore THEN ""
    ELSE IF Len(splitOn(substring(line, 4), "=")) < 2
    THEN "Cannot read properties of undefined (reading 'trim')"
    ELSE IF setThrows(env) THEN ErrorMessage("set")
    ELSE ""

thrown_SET(st, line, env) ==
    IF currentScope(st.executionStack).ignore THEN ""
    ELSE IF Len(splitOn(substring(line, 4), "=")) = 2 /\ setThrows(env)
    THEN ErrorMessage("set")
    ELSE ""

thrown_SETVAR(st, line, env) ==
    IF currentScope(st.executionStack).ignore THEN ""
    ELSE IF includes(trim(substring(line, 7)), " ") /\ setThrows(env)
    THEN ErrorMessage("set")
    ELSE ""

thrown_handle(d, st, line, env) ==
    CASE d = "IF" -> thrown_IF(st, line, env)
      [] d = "ELSE IF" -> thrown_ELSE_IF(st, line, env)
      [] d = "SET" -> thrown_SET(st, line, env)
      [] d = "SETVAR" -> thrown_SETVAR(st, line, env)
      [] OTHER -> ""

thrown_dispatch(st, line, env) == thrown_handle(directive(line), st, line, env)

\* substituteParams(rawLine) throws
substituteThrows(rawLine, env) ==
    "substituteParams" \in env.failing /\ includes(rawLine, "{{")

thrown_afterPreCheck(pre, st, rawLine, env) ==
    IF pre # "fall" THEN ""
    ELSE IF substituteThrows(rawLine, env) THEN ErrorMessage("substituteParams")
    ELSE thrown_dispatch(st, substituteParams(rawLine, env), env)

\* the message of the exception one iteration of the loop lets out on the
\* line rawLine, "" when the iteration completes
evaluateLogic_thrown(st, rawLine, env) ==
    thrown_afterPreCheck(ignoredPreCheck(currentScope(st.executionStack),
                                         toUpperCase(trim(rawLine))),
                         st, rawLine, env)

(***************************************************************************)
(* Inputs: the scripts and host environments that are explored             *)
(***************************************************************************)
\* longest script of the general family
MaxLines == 4

RECURSIVE joinLines(_)
joinLines(ls) ==
    IF Len(ls) = 0 THEN ""
    ELSE IF Len(ls) = 1 THEN Head(ls)
    ELSE Head(ls) \o "\n" \o joinLines(Tail(ls))

SeqsUpTo(S, n) == UNION {[1..k -> S] : k \in 0..n}

\* a host with context.variables.global, no chat message, no macro and no
\* failing collaborator
DefaultEnv ==
    [hasGlobal |-> TRUE, hasWindow |-> FALSE, chat |-> <<>>, macros |-> <<>>, failing |-> {}]

EmptyStore == <<>>

Input(script, e, g, w) == [script |-> script, env |-> e, global |-> g, window |-> w]

GeneralLines ==
    {"IF 1 == 1", "IF 1 == 2", "ELSE IF 1 == 1", "ELSE IF 1 == 2", "ELSE", "END", "SAY \"A\""}

\* every script of at most MaxLines lines over GeneralLines
GeneralInputs ==
    {Input(joinLines(ls), DefaultEnv, EmptyStore, EmptyStore) : ls \in SeqsUpTo(GeneralLines, MaxLines)}

\* most conditions of an IF ... ELSE IF ... chain
MaxBranches == 2

ChainConds == {"1 == 1", "1 == 2", "x == 5"}

\* SAY "B<k>" / ELSE IF <conds[k+1]> ... for the branches from k on
RECURSIVE ChainTail(_, _)
ChainTail(conds, k) ==
    <<"SAY \"B" \o NatToString(k) \o "\"">>
      \o (IF k < Len(conds)
          THEN <<"ELSE IF " \o conds[k + 1]>> \o ChainTail(conds, k + 1)
          ELSE <<>>)

\* the lines IF c1 / SAY "B1" / ELSE IF c2 / SAY "B2" / ... / ELSE / SAY "E" / END,
\* inside IF 1 == 1 ... END when wrapped
ChainLines(p) ==
    (IF p.wrapped THEN <<"IF 1 == 1">> ELSE <<>>)
      \o <<"IF " \o p.conds[1]>> \o ChainTail(p.conds, 1)
      \o (IF p.hasElse THEN <<"ELSE", "SAY \"E\"">> ELSE <<>>)
      \o <<"END">>
      \o (IF p.wrapped THEN <<"END">> ELSE <<>>)

ChainParams ==
    [conds : SeqsUpTo(ChainConds, MaxBranches) \ {<<>>}, hasElse : BOOLEAN, wrapped : BOOLEAN]

XIsFive == [k \in {"x"} |-> "5"]

ChainInputs ==
    {Input(joinLines(ChainLines(p)), DefaultEnv, g, EmptyStore) :
        p \in ChainParams, g \in {EmptyStore, XIsFive}}

\* the scripts of the testable properties, as they are written there
ExampleIfTrue == "IF 1 == 1 \n SAY \"A\" \n END"
ExampleElse == "IF 1 == 2 \n SAY \"A\" \n ELSE \n SAY \"B\" \n END"
ExampleNoSpace == "IF 1==1 \n SAY \"A\" \n ELSE IF 1==1 \n SAY \"B\" \n END"
ExampleSet == "SET x = 5 \n IF x == 5 \n SAY \"A\" \n END"

ExampleInputs ==
    {Input(t, DefaultEnv, EmptyStore, EmptyStore) : t \in {ExampleIfTrue, ExampleElse, ExampleNoSpace}}

\* longest script of the family without control lines
MaxSay == 3

SayLines ==
    {"SAY \"A\"", "SAY B c", "say \"\"", "SAY   \"D\"", "SAY", "SET x = 5", "SETVAR f true", "hello"}

SayInputs ==
    {Input(joinLines(ls), DefaultEnv, EmptyStore, EmptyStore) : ls \in SeqsUpTo(SayLines, MaxSay)}

\* the hosts: which stores exist, and what they hold at the start
Hosts ==
    {[env |-> DefaultEnv, global |-> EmptyStore, window |-> EmptyStore],
     [env |-> [DefaultEnv EXCEPT !.hasGlobal = FALSE, !.hasWindow = TRUE],
      global |-> EmptyStore, window |-> EmptyStore],
     [env |-> [DefaultEnv EXCEPT !.hasWindow = TRUE],
      global |-> EmptyStore, window |-> [k \in {"x", "s"} |-> "9"]],
     [env |-> [DefaultEnv EXCEPT !.hasGlobal = FALSE],
      global |-> EmptyStore, window |-> EmptyStore]}

\* a SET or SETVAR line, at top level or inside a branch, then a condition on x
VarPrefixes == {<<>>, <<"IF 1 == 1">>, <<"IF 1 == 2">>}

SetLines ==
    {"SET x = 5", "SET x = \"5\"", "SET  x  =  abc ", "SET x = true", "SET x = TRUE",
     "SET x = 5abc", "SET x =", "SET x 5", "SET x = a=b"}

SetvarLines ==
    {"SETVAR x true", "SETVAR x TRUE", "SETVAR x False", "SETVAR x 5", "SETVAR x 007",
     "SETVAR x -2.5", "SETVAR x hello", "SETVAR x 5abc", "SETVAR x \"a b\"",
     "SETVAR x \"5\"", "SETVAR x \"true\"", "SETVAR x"}

VarConds == {"IF x == 5", "IF x == true"}

VarInputs ==
    {Input(joinLines(pre \o <<l, c, "SAY \"A\"", "END">>), h.env, h.global, h.window) :
        pre \in VarPrefixes, l \in SetLines \cup SetvarLines, c \in VarConds, h \in Hosts}
      \cup {Input(ExampleSet, h.env, h.global, h.window) : h \in Hosts}

\* openings that leave the top frame suppressed at depth 2 or 3
DeadPrefixes ==
    {<<"IF 1 == 2", "IF 1 == 1">>, <<"IF 1 == 1", "IF 1 == 2">>, <<"IF 1 == 1", "ELSE">>,
     <<"IF 1 == 1", "ELSE IF 1 == 1">>, <<"IF 1 == 2", "IF 1 == 2", "ELSE">>,
     <<"IF 1 == 1", "IF 1 == 1", "IF 1 == 2">>}

\* a SET or SETVAR in a branch that is not taken, then a condition on x
DeadWriteInputs ==
    {Input(joinLines(pre \o <<l, "END", "IF x == 5", "SAY \"A\"">>), h.env, h.global, h.window) :
        pre \in DeadPrefixes, l \in {"SET x = 5", "SETVAR x 5", "SETVAR f true"},
        h \in {host \in Hosts : host.env.hasGlobal # host.env.hasWindow}}

Inputs ==
    GeneralInputs \cup ChainInputs \cup ExampleInputs \cup SayInputs \cup VarInputs
      \cup DeadWriteInputs

\* a condition, then a SAY under it
CondScript(c) == joinLines(<<"IF " \o c, "SAY \"A\"", "END">>)

\* strings a host may hold for the variable x
StoredStrings ==
    {"5", "2.5", "-3", " 7 ", "007", "5abc", "", "true", "false", "TRUE", "False",
     "hello", "truely"}

ReadConds ==
    {"x == 5", "x == true", "x == false", "x == \"hello\"", "x > 2", "x CONTAINS \"r\""}

\* a condition on the stored variable x, read from either store
ReadInputs ==
    {Input(CondScript(c), DefaultEnv, [k \in {"x"} |-> v], EmptyStore) :
        c \in ReadConds, v \in StoredStrings}
      \cup {Input(CondScript(c), [DefaultEnv EXCEPT !.hasGlobal = FALSE, !.hasWindow = TRUE],
                  EmptyStore, [k \in {"x"} |-> v]) :
              c \in ReadConds, v \in StoredStrings}

AbsentConds ==
    {"y == 0", "y < 1", "y != 0", "0 == y", "y == x", "x == y", "y == z", "y == \"\"",
     "y CONTAINS \"0\"", "{{getvar::y}} == 0", "{{y}} >= 0", "y == null", "< 12"}

\* a condition that names y and z, which no store holds
AbsentInputs ==
    {Input(CondScript(c), h.env, h.global, h.window) : c \in AbsentConds, h \in Hosts}

RandomConds ==
    {"RANDOM < 0", "RANDOM < 1", "RANDOM >= 0", "RANDOM >= 1", "RANDOM == RANDOM",
     "random >= 0.5", "0.5 > Random", "RANDOM < RANDOM"}

RandomInputs ==
    {Input(CondScript(c), DefaultEnv, EmptyStore, EmptyStore) : c \in RandomConds}

ExampleContains == "IF \"Hello World\" CONTAINS \"world\" \n SAY \"A\" \n END"

ContainsConds ==
    {"\"Hello World\" CONTAINS \"world\"", "\"Hello World\" HAS \"WORLD\"",
     "\"Hello\" CONTAINS \"world\"", "\"world\" CONTAINS \"Hello World\"",
     "x CONTAINS \"E\"", "\"yellow\" HAS x", "15 CONTAINS 5", "2.50 HAS 50",
     "true HAS \"RU\"", "x CONTAINS y", "\"a10\" HAS y", "\"abc\" CONTAINS \"\"",
     "\"abc\" contains \"b\"", "\"abc\" Has \"b\""}

ContainsInputs ==
    {Input(CondScript(c), DefaultEnv, g, EmptyStore) :
        c \in ContainsConds, g \in {EmptyStore, [k \in {"x"} |-> "Hello"], [k \in {"x"} |-> "5"]}}
      \cup {Input(ExampleContains, DefaultEnv, EmptyStore, EmptyStore)}

\* conditions of fewer than three tokens, with and without a leading operator
FewTokenConds ==
    {"x", "5", "x ==", "== 5", ">= 0", "!= 0", "<5", "x<5", "\"a b\"", "= x", "!", "== ==",
     "> -1", "5 >", "true"}

FewTokenInputs ==
    {Input(CondScript(c), DefaultEnv, g, EmptyStore) :
        c \in FewTokenConds, g \in {EmptyStore, XIsFive}}

\* conditions whose second token is none of the operators of the switch
UnknownOpConds ==
    {"1 ~ 1", "1 === 1", "1 <> 2", "1 => 1", "2 =< 3", "1 !== 2", "1 ! 1", "5 is 5",
     "x equals 5", "1 AND 1", "1 \"==\" 1", "x >> 1", "\"abc\" has \"b\"", "RANDOM ~ 1",
     "1 1 1", "1 ==1 1"}

\* an ELSE IF with the condition c, after an IF that is false, or true
ElseIfScript(first, c) == joinLines(<<"IF " \o first, "ELSE IF " \o c, "SAY \"A\"", "END">>)

UnknownOpInputs ==
    {Input(CondScript(c), DefaultEnv, g, EmptyStore) :
        c \in UnknownOpConds, g \in {EmptyStore, XIsFive}}
      \cup {Input(ElseIfScript(first, c), DefaultEnv, EmptyStore, EmptyStore) :
              first \in {"1 == 2", "1 == 1"},
              c \in UnknownOpConds \cup {"1 == 1", "x CONTAINS 0"}}

\* conditions of more than three tokens
ExtraTokenConds ==
    {"a > 1 AND b > 2", "a > 9 AND b > 2", "b > 2 AND a > 1", "x > 9 OR 1 == 1",
     "1 == 1 1", "1 == 2 == 2", "1 < 2 < 1", "x == 5 \"abc\"", "1 == 1 garbage here",
     "5 CONTAINS 5 0", "a == 2 ~", "1 ~ 1 == 1"}

\* a store that holds a = 2 and b = 0
AIsTwo == [k \in {"a", "b"} |-> IF k = "a" THEN "2" ELSE "0"]

ExtraTokenInputs ==
    {Input(CondScript(c), DefaultEnv, g, EmptyStore) :
        c \in ExtraTokenConds, g \in {EmptyStore, XIsFive, AIsTwo}}

\* the scripts that exercise the expression evaluator
ExprInputs ==
    ReadInputs \cup AbsentInputs \cup RandomInputs \cup ContainsInputs \cup FewTokenInputs
      \cup UnknownOpInputs \cup ExtraTokenInputs

\* the scripts of two calls that overlap, and of a call that follows another
CallScripts ==
    {"SAY \"A\"",
     "IF x == 5\nSAY \"A\"\nEND",
     "IF x == 5\nSAY \"A\"\nELSE\nSAY \"C\"",
     "SET x = 5\nSAY \"B\"",
     "SETVAR x 7",
     "SET x = 6\nIF x == 6\nSAY \"D\"\nEND",
     "IF 1 == 2\nIF 1 == 1",
     "IF RANDOM < 0.5\nSAY \"R\"\nEND",
     "IF x == 7\nSAY \"S\"\nEND"}

CallInputs ==
    {Input(t, DefaultEnv, g, EmptyStore) : t \in CallScripts, g \in {EmptyStore, XIsFive}}
      \cup {Input(t, [DefaultEnv EXCEPT !.hasGlobal = FALSE, !.hasWindow = TRUE],
                  EmptyStore, EmptyStore) : t \in CallScripts}

\* longest script of the family of malformed lines
MaxMalformed == 2

\* lines with bad SET / SETVAR syntax, unmatched ELSE / ELSE IF / END, unknown
\* directives, unparsable conditions and an IF that is never closed, among
\* well-formed ones
MalformedLines ==
    {"SET x", "SET x = a = b", "SETVAR x", "ELSE", "ELSE IF 1 == 1", "END", "ENDIF",
     "FOO bar", "IF x", "IF x ~ 3", "IF \"a b", "SAY \"A\"", "SET x = 5", "IF x == 5"}

\* more lines of the kind, each tried alone and in front of SAY "A" / END
OddLines ==
    {"SET = 5", "SET", "SETVAR", "SETVAR  ", "ELSE IF", "ELSEWHERE", "IF", "IF == ==",
     "IF 1 == 1", "IF 1 1 1", "IF \"\"\"", "SAY", "{{x}}", "END IF", "if", "=", "\""}

\* a host in which no store exists
NoStoreEnv == [DefaultEnv EXCEPT !.hasGlobal = FALSE]

MalformedInputs ==
    {Input(joinLines(ls), e, EmptyStore, EmptyStore) :
        ls \in SeqsUpTo(MalformedLines, MaxMalformed), e \in {DefaultEnv, NoStoreEnv}}
      \cup {Input(joinLines(<<l>> \o tail), e, EmptyStore, EmptyStore) :
              l \in OddLines, tail \in {<<>>, <<"SAY \"A\"", "END">>},
              e \in {DefaultEnv, NoStoreEnv}}

\* hosts in which one collaborator throws
FailingEnvs == {[DefaultEnv EXCEPT !.failing = {c}] : c \in {"get", "set", "substituteParams"}}

\* scripts that say something, write a variable and then read one
ThrowScripts ==
    {"SAY \"A\"\nSET x = 5\nIF x == 5\nSAY \"B\"\nEND",
     "SAY \"A\"\nSETVAR x 5\nSAY \"B\"\nIF 1 == 1\nELSE IF y == 1\nEND",
     "SAY \"A\"\nSAY {{user}}\nSAY \"B\"",
     "IF 1 == 2\nSET x = 5\nSAY {{user}}\nIF x == 5\nEND\nELSE IF x == 5\nSAY \"A\"\nEND",
     "SET x 5\nSAY \"A\"\nIF 1 == x\nSAY \"B\"\nEND"}

ThrowInputs ==
    {Input(t, e, EmptyStore, EmptyStore) : t \in ThrowScripts, e \in FailingEnvs \cup {DefaultEnv}}

HandlerInputs == MalformedInputs \cup ThrowInputs

\* RandomDraws with the fault of a draw that can be 1
RandomDraws_closed == {0, 1, 2}

\* the values Math.random() can return, in halves: 0 and 0.5
RandomDraws == {0, 1}

(***************************************************************************)
(* The state machine.  lines, i, executionStack and outputBuffer are the   *)
(* locals of one call of evaluateLogic and result is what it returns;      *)
(* error is the message of the exception that left it.  other holds the    *)
(* locals of a second call that overlaps the first one.  The stores, and   *)
(* the counters evals and substs, are shared by all calls.  registration   *)
(* is the state of the registration of the macro with the host, library    *)
(* the script library with its editor.                                     *)
(***************************************************************************)
VARIABLES lines, i, executionStack, outputBuffer, globalVars, windowVars,
          env, evals, substs, pc, result, error, other, registration, library

vars == <<lines, i, executionStack, outputBuffer, globalVars, windowVars,
          env, evals, substs, pc, result, error, other, registration, library>>

\* the interpreter state as the record the loop body works on
State ==
    [executionStack |-> executionStack, outputBuffer |-> outputBuffer,
     global |-> globalVars, window |-> windowVars, evals |-> evals, substs |-> substs]

\* evaluateLogic_locals with the fault of an output buffer declared outside
\* the function: the call goes on with the buffer the first call has filled
evaluateLogic_locals_sharedBuffer(script) ==
    [pc |-> "loop", lines |-> splitLines(script), i |-> 1,
     executionStack |-> <<BaseFrame>>, outputBuffer |-> outputBuffer, result |-> ""]

\* evaluateLogic_locals with the fault of an execution stack declared outside
\* the function: a call starts on the stack the call before it left
evaluateLogic_locals_keptStack(script) ==
    [pc |-> "loop", lines |-> splitLines(script), i |-> 1,
     executionStack |-> executionStack, outputBuffer |-> "", result |-> ""]

\* the locals of a call of evaluateLogic(script) as the loop starts
evaluateLogic_locals(script) ==
    [pc |-> "loop", lines |-> splitLines(script), i |-> 1,
     executionStack |-> <<BaseFrame>>, outputBuffer |-> "", result |-> ""]

\* no second call has been made
IdleCall ==
    [pc |-> "idle", lines |-> <<>>, i |-> 1,
     executionStack |-> <<BaseFrame>>, outputBuffer |-> "", result |-> ""]

\* the host the extension is loaded in, as registerLogicMacro sees it:
\* macros is the method of the macro registry its search finds ("none" when
\* it finds no registry, or one with neither method), onWindow tells that the
\* registry is found on window, without a call of getContext
NoHost == [macros |-> "none", onWindow |-> FALSE, getContext |-> "works", legacy |-> "absent"]

\* registerLogicMacro is not part of the run: no call of it is due
NoRegistration ==
    [host |-> NoHost, pending |-> 0, registered |-> 0, last |-> "none", delay |-> 0]

\* the settings panel is not part of the run
NoLibrary ==
    [scripts |-> <<>>, selectedScriptIndex |-> -1, name |-> "", content |-> "",
     toast |-> "none"]

\* the state as a call of evaluateLogic(in.script) starts in the host in
InitOn(in) ==
    /\ lines = splitLines(in.script)
    /\ i = 1
    /\ executionStack = <<BaseFrame>>
    /\ outputBuffer = ""
    /\ globalVars = in.global
    /\ windowVars = in.window
    /\ env = in.env
    /\ evals = 0
    /\ substs = 0
    /\ pc = "loop"
    /\ result = ""
    /\ error = ""
    /\ other = IdleCall
    /\ registration = NoRegistration
    /\ library = NoLibrary

Init == \E in \in Inputs : InitOn(in)

\* the draws of Math.random() the line can make: <<left operand, right operand>>
Draws(line) ==
    IF includes(toUpperCase(line), "RANDOM") THEN RandomDraws \X RandomDraws ELSE {<<0, 0>>}

\* Step with the fault of a loop that goes back a line after a line it skips
Step_back ==
    /\ pc = "loop"
    /\ i <= Len(lines)
    /\ IF env.failing = {} THEN TRUE ELSE evaluateLogic_thrown(State, lines[i], env) = ""
    /\ \E rnd \in Draws(lines[i]) :
          \E st \in {evaluateLogic_line(State, lines[i], env, rnd)} :
              /\ executionStack' = st.executionStack
              /\ outputBuffer' = st.outputBuffer
              /\ globalVars' = st.global
              /\ windowVars' = st.window
              /\ evals' = st.evals
              /\ substs' = st.substs
    /\ i' = IF ignoredPreCheck(currentScope(executionStack), toUpperCase(trim(lines[i]))) = "skip"
            THEN i - 1
            ELSE i + 1
    /\ UNCHANGED <<lines, env, pc, result, error, other, registration, library>>

\* for (let i = 0; i < lines.length; i++) { ... }: the body on the next line
Step ==
    /\ pc = "loop"
    /\ i <= Len(lines)
    /\ IF env.failing = {} THEN TRUE ELSE evaluateLogic_thrown(State, lines[i], env) = ""
    /\ \E rnd \in Draws(lines[i]) :
          \E st \in {evaluateLogic_line(State, lines[i], env, rnd)} :
              /\ executionStack' = st.executionStack
              /\ outputBuffer' = st.outputBuffer
              /\ globalVars' = st.global
              /\ windowVars' = st.window
              /\ evals' = st.evals
              /\ substs' = st.substs
    /\ i' = i + 1
    /\ UNCHANGED <<lines, env, pc, result, error, other, registration, library>>

\* return outputBuffer.trim()
Return ==
    /\ pc = "loop"
    /\ i > Len(lines)
    /\ result' = trim(outputBuffer)
    /\ pc' = "done"
    /\ UNCHANGED <<lines, i, executionStack, outputBuffer, globalVars, windowVars,
                   env, evals, substs, error, other, registration, library>>

Next == Step \/ Return

Spec == Init /\ [][Next]_vars

(***************************************************************************)
(* A second call of evaluateLogic that overlaps the first one: it is       *)
(* entered while the first is between two lines (a macro of the line being *)
(* substituted runs a script) or after it has returned.                    *)
(***************************************************************************)
\* the interpreter state of the second call: its own locals, the shared stores
OtherState ==
    [executionStack |-> other.executionStack, outputBuffer |-> other.outputBuffer,
     global |-> globalVars, window |-> windowVars, evals |-> evals, substs |-> substs]

\* evaluateLogic(script) is entered a second time
StartOther ==
    /\ other.pc = "idle"
    /\ \E script \in CallScripts : other' = evaluateLogic_locals(script)
    /\ UNCHANGED <<lines, i, executionStack, outputBuffer, globalVars, windowVars,
                   env, evals, substs, pc, result, error, registration, library>>

\* StepOther with the fault of an execution stack declared outside the
\* function: the second call works on the stack of the first
StepOther_sharedStack ==
    /\ other.pc = "loop"
    /\ other.i <= Len(other.lines)
    /\ \E rnd \in Draws(other.lines[other.i]) :
          \E st \in {evaluateLogic_line([OtherState EXCEPT !.executionStack = executionStack],
                                        other.lines[other.i], env, rnd)} :
              /\ other' = [other EXCEPT !.executionStack = st.executionStack,
                                        !.outputBuffer = st.outputBuffer,
                                        !.i = @ + 1]
              /\ executionStack' = st.executionStack
              /\ globalVars' = st.global
              /\ windowVars' = st.window
              /\ evals' = st.evals
              /\ substs' = st.substs
    /\ UNCHANGED <<lines, i, outputBuffer, env, pc, result, error, registration, library>>

\* StepOther with the fault of a store of its own: what the second call
\* writes does not reach the store of the host
StepOther_isolated ==
    /\ other.pc = "loop"
    /\ other.i <= Len(other.lines)
    /\ \E rnd \in Draws(other.lines[other.i]) :
          \E st \in {evaluateLogic_line(OtherState, other.lines[other.i], env, rnd)} :
              /\ other' = [other EXCEPT !.executionStack = st.executionStack,
                                        !.outputBuffer = st.outputBuffer,
                                        !.i = @ + 1]
              /\ evals' = st.evals
              /\ substs' = st.substs
    /\ UNCHANGED <<lines, i, executionStack, outputBuffer, globalVars, windowVars,
                   env, pc, result, error, registration, library>>

\* the loop body of the second call on its next line
StepOther ==
    /\ other.pc = "loop"
    /\ other.i <= Len(other.lines)
    /\ IF env.failing = {} THEN TRUE
       ELSE evaluateLogic_thrown(OtherState, other.lines[other.i], env) = ""
    /\ \E rnd \in Draws(other.lines[other.i]) :
          \E st \in {evaluateLogic_line(OtherState, other.lines[other.i], env, rnd)} :
              /\ other' = [other EXCEPT !.executionStack = st.executionStack,
                                        !.outputBuffer = st.outputBuffer,
                                        !.i = @ + 1]
              /\ globalVars' = st.global
              /\ windowVars' = st.window
              /\ evals' = st.evals
              /\ substs' = st.substs
    /\ UNCHANGED <<lines, i, executionStack, outputBuffer, env, pc, result, error,
                   registration, library>>

\* the second call returns outputBuffer.trim()
ReturnOther ==
    /\ other.pc = "loop"
    /\ other.i > Len(other.lines)
    /\ other' = [other EXCEPT !.result = trim(other.outputBuffer), !.pc = "done"]
    /\ UNCHANGED <<lines, i, executionStack, outputBuffer, globalVars, windowVars,
                   env, evals, substs, pc, result, error, registration, library>>

CallsInit == \E in \in CallInputs : InitOn(in)

CallsNext == Step \/ Return \/ StartOther \/ StepOther \/ ReturnOther

\* two calls of evaluateLogic that overlap
CallsSpec == CallsInit /\ [][CallsNext]_vars

(***************************************************************************)
(* The macro handler around a call: logicMacroHandler runs evaluateLogic   *)
(* in a try block and turns what it throws into a string.                  *)
(***************************************************************************)
\* a collaborator throws while the loop body works on the next line: the
\* exception leaves evaluateLogic
Throw ==
    /\ pc = "loop"
    /\ i <= Len(lines)
    /\ \E message \in {evaluateLogic_thrown(State, lines[i], env)} :
          /\ message # ""
          /\ error' = message
          /\ evals' = evals + (IF message = ErrorMessage("get") THEN 1 ELSE 0)
    /\ substs' = substs + 1
    /\ pc' = "thrown"
    /\ UNCHANGED <<lines, i, executionStack, outputBuffer, globalVars, windowVars,
                   env, result, other, registration, library>>

\* logicMacroHandler_catch with the fault of keeping the output said so far
logicMacroHandler_catch_partial ==
    /\ pc = "thrown"
    /\ result' = outputBuffer \o "[Logic Error: " \o error \o "]"
    /\ pc' = "handled"
    /\ UNCHANGED <<lines, i, executionStack, outputBuffer, globalVars, windowVars,
                   env, evals, substs, error, other, registration, library>>

\* logicMacroHandler_catch with the fault of undoing the writes of the call
logicMacroHandler_catch_rollback ==
    /\ pc = "thrown"
    /\ result' = "[Logic Error: " \o error \o "]"
    /\ pc' = "handled"
    /\ globalVars' = EmptyStore
    /\ windowVars' = EmptyStore
    /\ UNCHANGED <<lines, i, executionStack, outputBuffer, env, evals, substs, error, other,
                   registration, library>>

\* catch (e) { return `[Logic Error: ${e.message}]`; }
logicMacroHandler_catch ==
    /\ pc = "thrown"
    /\ result' = "[Logic Error: " \o error \o "]"
    /\ pc' = "handled"
    /\ UNCHANGED <<lines, i, executionStack, outputBuffer, globalVars, windowVars,
                   env, evals, substs, error, other, registration, library>>

HandlerInit == \E in \in HandlerInputs : InitOn(in)

HandlerNext == Step \/ Return \/ Throw \/ logicMacroHandler_catch

\* calls of evaluateLogic made by the macro handler, in hosts whose
\* collaborators work and in hosts where one of them throws
HandlerSpec == HandlerInit /\ [][HandlerNext]_vars

(***************************************************************************)
(* The macro handler's argument.  data is what the macro engine passes: a  *)
(* string (legacy signature), an object with a field args (an array, a     *)
(* string, or something else), or another value.  env.data holds it,       *)
(* env.settings the extension settings with the saved scripts.             *)
(***************************************************************************)
Undefined == [t |-> "undef", v |-> 0]
Arr(elems) == [t |-> "arr", v |-> elems]
Obj(args) == [t |-> "obj", args |-> args]

\* let args = data; if (typeof data === 'object' && data !== null) { ... }
logicMacroHandler_args(data) ==
    IF data.t = "obj"
    THEN IF data.args.t = "arr" /\ Len(data.args.v) > 0 THEN data.args.v[1]
         ELSE IF data.args.t = "str" THEN data.args
         ELSE Str("")
    ELSE data

\* settings.scripts.find(s => s.name === name): <<the script>>, or <<>> for
\* undefined
RECURSIVE find(_, _)
find(scripts, name) ==
    IF Len(scripts) = 0 THEN <<>>
    ELSE IF Head(scripts).name = name THEN <<Head(scripts)>>
    ELSE find(Tail(scripts), name)

getSavedScript(name, settings) ==
    IF ~settings.present THEN <<>> ELSE find(settings.scripts, name)

contentOf(saved, args) == IF Len(saved) > 0 THEN saved[1].content ELSE args

\* scriptContent with the fault of looking the argument up as it is
scriptContent_untrimmed(args, settings) ==
    IF ~includes(args, "\n")
    THEN contentOf(getSavedScript(args, settings), args)
    ELSE args

\* the text the handler passes to evaluateLogic
scriptContent(args, settings) ==
    IF ~includes(args, "\n")
    THEN contentOf(getSavedScript(trim(args), settings), args)
    ELSE args

\* the saved scripts of the host
Greet == [name |-> "greet", content |-> "SAY \"Hi\""]
Two == [name |-> "two", content |-> "IF 1 == 1\nSAY \"T\"\nEND"]
Blank == [name |-> "blank", content |-> ""]
Say == [name |-> "SAY \"X\"", content |-> "SAY \"Y\""]

Settings ==
    {[present |-> FALSE, scripts |-> <<>>], [present |-> TRUE, scripts |-> <<>>],
     [present |-> TRUE, scripts |-> <<Greet>>],
     [present |-> TRUE, scripts |-> <<Greet, Two, Blank, Say>>]}

\* the strings the macro is called with
ArgStrings ==
    {"", " ", "greet", " greet ", "Greet", "greet\n", "two", "blank", "nosuch",
     "SAY \"X\"", "SAY \"A\"\ngreet", "IF 1 == 2\nSAY \"N\"\nELSE\nSAY \"E\"\nEND"}

MacroData ==
    {Str(a) : a \in ArgStrings}
      \cup {Obj(Arr(<<Str(a)>>)) : a \in ArgStrings}
      \cup {Obj(Str(a)) : a \in {"", "greet", "SAY \"X\""}}
      \cup {Obj(Arr(<<Str("two"), Str("greet")>>)), Obj(Arr(<<>>)), Obj(Arr(<<Num(10)>>)),
            Obj(Undefined), Obj(Num(10)), Undefined, Null, Num(10), Num(0), Bool(TRUE)}

MacroEnv(data, settings) ==
    [hasGlobal |-> TRUE, hasWindow |-> FALSE, chat |-> <<>>, macros |-> <<>>, failing |-> {},
     data |-> data, settings |-> settings]

\* logicMacroHandler(data) up to its call of evaluateLogic
logicMacroHandler ==
    /\ pc = "called"
    /\ \E args \in {logicMacroHandler_args(env.data)} :
          IF args.t # "str" \/ args.v = ""
          THEN /\ result' = ""
               /\ pc' = "returned"
               /\ lines' = lines
          ELSE /\ lines' = splitLines(scriptContent(args.v, env.settings))
               /\ pc' = "loop"
               /\ result' = result
    /\ UNCHANGED <<i, executionStack, outputBuffer, globalVars, windowVars, env, evals,
                   substs, error, other, registration, library>>

\* the macro engine calls the handler
MacroInit ==
    /\ \E data \in MacroData, settings \in Settings : env = MacroEnv(data, settings)
    /\ pc = "called"
    /\ lines = <<>>
    /\ i = 1
    /\ executionStack = <<BaseFrame>>
    /\ outputBuffer = ""
    /\ globalVars = EmptyStore
    /\ windowVars = EmptyStore
    /\ evals = 0
    /\ substs = 0
    /\ result = ""
    /\ error = ""
    /\ other = IdleCall
    /\ registration = NoRegistration
    /\ library = NoLibrary

MacroNext == logicMacroHandler \/ Step \/ Return

MacroSpec == MacroInit /\ [][MacroNext]_vars

(***************************************************************************)
(* The registration of the macro.  registerLogicMacro runs once as the     *)
(* extension loads and again whenever a timer it has set fires; a run is   *)
(* synchronous.  Between two runs the host may change: a registry is       *)
(* loaded, replaced or taken away.                                         *)
(***************************************************************************)
\* the delay of the retry, in milliseconds
RetryDelay == 1000

\* the registrations after which the model stops counting
MaxRegistered == 2

MacroHosts ==
    [macros : {"none", "register", "registerThrows", "registry", "registryThrows"},
     onWindow : BOOLEAN, getContext : {"works", "throws"},
     legacy : {"absent", "works", "throws"}]

\* the search for the registry calls getContext() when window has none
searchThrows(h) ==
    /\ IF h.macros = "none" THEN TRUE ELSE ~h.onWindow
    /\ h.getContext = "throws"

\* the fallback, reached when registered is still false
registerLogicMacro_fallback(h) ==
    IF h.getContext = "throws" THEN "caught"
    ELSE IF h.legacy = "works" THEN "legacy"
    ELSE IF h.legacy = "throws" THEN "caught"
    ELSE "retry"

\* how a run of registerLogicMacro ends in the host h: the macro registered
\* by macros.register ("register"), by registry.registerMacro ("registry") or
\* by context.registerMacro ("legacy"), the retry of the else branch ("retry")
\* or the retry of the outer catch ("caught")
registerLogicMacro_outcome(h) ==
    IF searchThrows(h) THEN "caught"
    ELSE IF h.macros = "register" THEN "register"
    ELSE IF h.macros = "registry" THEN "registry"
    ELSE registerLogicMacro_fallback(h)

\* the registrations a run with this outcome has made
registers(outcome) == IF outcome \in {"register", "registry", "legacy"} THEN 1 ELSE 0

\* scheduled with the fault of an outer catch that only logs
scheduled_uncaught(outcome) == IF outcome = "retry" THEN 1 ELSE 0

\* the timers a run with this outcome has set
scheduled(outcome) == IF outcome \in {"retry", "caught"} THEN 1 ELSE 0

\* the locals and the stores of the interpreter, which no call touches
interpreterVars ==
    <<lines, i, executionStack, outputBuffer, globalVars, windowVars, env, evals, substs,
      pc, result, error, other>>

\* no call of the macro handler is made
InterpreterIdle ==
    /\ lines = <<>>
    /\ i = 1
    /\ executionStack = <<BaseFrame>>
    /\ outputBuffer = ""
    /\ globalVars = EmptyStore
    /\ windowVars = EmptyStore
    /\ env = DefaultEnv
    /\ evals = 0
    /\ substs = 0
    /\ pc = "idle"
    /\ result = ""
    /\ error = ""
    /\ other = IdleCall

\* one run of registerLogicMacro: the call as the extension loads, or the
\* call a timer makes
registerLogicMacro ==
    /\ registration.pending > 0
    /\ registration.registered < MaxRegistered
    /\ \E outcome \in {registerLogicMacro_outcome(registration.host)} :
          registration' =
              [registration EXCEPT !.pending = @ - 1 + scheduled(outcome),
                                   !.registered = @ + registers(outcome),
                                   !.last = outcome,
                                   !.delay = IF scheduled(outcome) > 0 THEN RetryDelay ELSE @]
    /\ UNCHANGED <<interpreterVars, library>>

\* the host changes between two runs
HostChanges ==
    /\ \E h \in MacroHosts \ {registration.host} :
          registration' = [registration EXCEPT !.host = h]
    /\ UNCHANGED <<interpreterVars, library>>

\* the extension loads: registerLogicMacro() is called once
RegInit ==
    /\ InterpreterIdle
    /\ \E h \in MacroHosts :
          registration = [host |-> h, pending |-> 1, registered |-> 0, last |-> "none",
                          delay |-> 0]
    /\ library = NoLibrary

RegNext == registerLogicMacro \/ HostChanges

\* a timer that is set fires, and the call it makes runs to its end
RegSpec == RegInit /\ [][RegNext]_vars /\ WF_vars(registerLogicMacro)

(***************************************************************************)
(* The script library of the settings panel.  library.scripts is           *)
(* settings.scripts, library.selectedScriptIndex the index (from 0, -1 for *)
(* none) of the script in the editor, library.name and library.content the *)
(* two fields of the editor, library.toast the toast the last handler has  *)
(* shown ("none" when it has shown none).                                  *)
(***************************************************************************)
\* the scripts a library is let grow to
MaxScripts == 3

\* what the user types into the name field and into the content field
NameTexts == {"", " ", "a", " a ", "b"}

ContentTexts == {"", "SAY \"x\""}

\* the libraries the panel is opened on: their names are distinct
Libraries ==
    {<<>>,
     <<[name |-> "a", content |-> ""]>>,
     <<[name |-> "a", content |-> "SAY \"x\""], [name |-> "b", content |-> ""]>>,
     <<[name |-> " a ", content |-> ""], [name |-> "a", content |-> ""]>>}

\* settings.scripts.findIndex(s => s.name === name), from position k on
RECURSIVE findIndexFrom(_, _, _)
findIndexFrom(scripts, name, k) ==
    IF k > Len(scripts) THEN -1
    ELSE IF scripts[k].name = name THEN k - 1
    ELSE findIndexFrom(scripts, name, k + 1)

findIndex(scripts, name) == findIndexFrom(scripts, name, 1)

\* scripts.splice(index, 1)
splice(scripts, index) ==
    SubSeq(scripts, 1, index) \o SubSeq(scripts, index + 2, Len(scripts))

\* loadScriptToEditor(): the fields show the selected script, or are cleared
loadScriptToEditor(lib) ==
    IF lib.selectedScriptIndex >= 0 /\ lib.selectedScriptIndex < Len(lib.scripts)
    THEN [lib EXCEPT !.name = lib.scripts[lib.selectedScriptIndex + 1].name,
                     !.content = lib.scripts[lib.selectedScriptIndex + 1].content]
    ELSE [lib EXCEPT !.name = "", !.content = ""]

\* saveCurrentScript_error with the fault of a save that does not look for
\* the name in the list
saveCurrentScript_error_unchecked(lib) ==
    IF trim(lib.name) = "" THEN "Script must have a name" ELSE ""

\* the error saveCurrentScript returns with, "" when it goes on to save
saveCurrentScript_error(lib) ==
    IF trim(lib.name) = "" THEN "Script must have a name"
    ELSE IF /\ findIndex(lib.scripts, trim(lib.name)) # -1
            /\ findIndex(lib.scripts, trim(lib.name)) # lib.selectedScriptIndex
         THEN "A script with this name already exists"
    ELSE ""

\* the update or the push of saveCurrentScript
saveCurrentScript_store(lib) ==
    IF lib.selectedScriptIndex >= 0 /\ lib.selectedScriptIndex < Len(lib.scripts)
    THEN [lib EXCEPT !.scripts[lib.selectedScriptIndex + 1] =
                         [name |-> trim(lib.name), content |-> lib.content]]
    ELSE [lib EXCEPT !.scripts = Append(@, [name |-> trim(lib.name), content |-> lib.content]),
                     !.selectedScriptIndex = Len(lib.scripts)]

\* the click on an item of the list renderScriptList has drawn
SelectScript ==
    /\ \E index \in 0..(Len(library.scripts) - 1) :
          library' = [loadScriptToEditor([library EXCEPT !.selectedScriptIndex = index])
                         EXCEPT !.toast = "none"]
    /\ UNCHANGED <<interpreterVars, registration>>

\* the click on the add button
NewScript ==
    /\ library' = [loadScriptToEditor([library EXCEPT !.selectedScriptIndex = -1])
                      EXCEPT !.toast = "none"]
    /\ UNCHANGED <<interpreterVars, registration>>

\* the user edits the name field
TypeName ==
    /\ \E text \in NameTexts : library' = [library EXCEPT !.name = text, !.toast = "none"]
    /\ UNCHANGED <<interpreterVars, registration>>

\* the user edits the content field
TypeContent ==
    /\ \E text \in ContentTexts :
          library' = [library EXCEPT !.content = text, !.toast = "none"]
    /\ UNCHANGED <<interpreterVars, registration>>

\* the click on the save button
saveCurrentScript ==
    /\ IF library.selectedScriptIndex >= 0 THEN TRUE ELSE Len(library.scripts) < MaxScripts
    /\ \E err \in {saveCurrentScript_error(library)} :
          IF err # ""
          THEN library' = [library EXCEPT !.toast = err]
          ELSE library' = [loadScriptToEditor(saveCurrentScript_store(library))
                              EXCEPT !.toast = "Script saved"]
    /\ UNCHANGED <<interpreterVars, registration>>

\* the click on the delete button
deleteCurrentScript ==
    /\ IF library.selectedScriptIndex < 0
       THEN library' = [library EXCEPT !.toast = "none"]
       ELSE library' =
                [loadScriptToEditor(
                     [library EXCEPT !.scripts = splice(@, library.selectedScriptIndex),
                                     !.selectedScriptIndex = -1])
                    EXCEPT !.toast = "none"]
    /\ UNCHANGED <<interpreterVars, registration>>

\* the panel opens: loadSettings(), renderScriptList(), nothing selected
LibraryInit ==
    /\ InterpreterIdle
    /\ registration = NoRegistration
    /\ \E scripts \in Libraries :
          library = [scripts |-> scripts, selectedScriptIndex |-> -1, name |-> "",
                     content |-> "", toast |-> "none"]

LibraryNext ==
    SelectScript \/ NewScript \/ TypeName \/ TypeContent \/ saveCurrentScript
        \/ deleteCurrentScript

LibrarySpec == LibraryInit /\ [][LibraryNext]_vars

\* calls of evaluateLogic on the scripts that exercise the expression evaluator
ExprInit == \E in \in ExprInputs : InitOn(in)

ExprSpec == ExprInit /\ [][Next]_vars

\* calls on the scripts of malformed lines and of the expression evaluator,
\* in hosts whose collaborators work
LoopInit == \E in \in MalformedInputs \cup ExprInputs : InitOn(in)

\* the loop moves on by a line, or the call returns
Advance ==
    /\ pc = "loop"
    /\ \/ i' = i + 1 /\ pc' = pc
       \/ i' = i /\ pc' = "done"

\* the loop is synchronous, it does not yield: a call that is in its loop is
\* run on, to the next line or to its return
FairSpec == LoopInit /\ [][Next]_vars /\ WF_<<i, pc>>(Advance)

TypeOK ==
    /\ pc \in {"idle", "called", "returned", "loop", "done", "thrown", "handled"}
    /\ i \in 1..(Len(lines) + 1)
    /\ Len(executionStack) >= 1


(***************************************************************************)
(* Properties                                                              *)
(***************************************************************************)
\* the top frame
Top == executionStack[Len(executionStack)]

\* the loop is about to process lines[i]
AtLine == pc = "loop" /\ i <= Len(lines)

\* the directive lines[i] is dispatched to once it has been substituted
Dispatched == directive(substituteParams(lines[i], env))

\* some frame below the top one is suppressed
OuterSuppressed == \E k \in 1..(Len(executionStack) - 1) : executionStack[k].ignore

\* C1: after every step the frame stack holds at least one frame, and an END
\* met at depth 1 leaves the stack, the output buffer and both stores as they
\* were (no pop, no error marker).
C1_StackNeverEmpty ==
    [][/\ Len(executionStack') >= 1
       /\ (AtLine /\ Len(executionStack) = 1 /\ Dispatched = "END")
            => /\ executionStack' = executionStack
               /\ outputBuffer' = outputBuffer
               /\ globalVars' = globalVars
               /\ windowVars' = windowVars]_vars

\* an END has just been processed at depth 1, after a SAY
C1_Witness ==
    /\ i = 3
    /\ lines[1] = "SAY \"A\""
    /\ lines[2] = "END"
    /\ executionStack = <<BaseFrame>>
    /\ outputBuffer = "A "

\* C2: a suppressed frame has only suppressed frames above it.
C2_SuppressionPropagates ==
    \A k \in 1..(Len(executionStack) - 1) :
        executionStack[k].ignore => executionStack[k + 1].ignore

\* an ELSE or ELSE IF has just been processed on a frame nested in a suppressed one
C2_Witness ==
    /\ i > 1
    /\ directive(lines[i - 1]) \in {"ELSE", "ELSE IF"}
    /\ Len(executionStack) = 3
    /\ executionStack[2].ignore
    /\ executionStack[3].ignore

\* C3: a SAY line processed while a frame below the top one is suppressed
\* appends nothing to the output.
C3_NoSayUnderSuppressedOuter ==
    [][(AtLine /\ OuterSuppressed /\ directive(lines[i]) = "SAY")
          => outputBuffer' = outputBuffer]_vars

\* a SAY has just been skipped in a true IF nested in a false IF
C3_Witness ==
    /\ i = 4
    /\ lines[1] = "IF 1 == 2"
    /\ lines[2] = "IF 1 == 1"
    /\ directive(lines[3]) = "SAY"
    /\ Len(executionStack) = 3
    /\ outputBuffer = ""

\* the condition c holds in the current store
Holds(c) == parseExpression(c, State, env, <<0, 0>>)

\* what a chain is to return: the body of its first true condition, else
\* the body of its ELSE, else nothing
RECURSIVE ChainExpected(_, _)
ChainExpected(p, k) ==
    IF k > Len(p.conds) THEN (IF p.hasElse THEN "E" ELSE "")
    ELSE IF Holds(p.conds[k]) THEN "B" \o NatToString(k)
    ELSE ChainExpected(p, k + 1)

\* C4: a chain IF / ELSE IF ... / ELSE / END in an active frame returns the
\* body of the first branch whose condition is true, the ELSE body when none
\* is, and nothing when there is no ELSE either; the two example scripts
\* return "A" and "B".
C4_FirstTrueBranchRuns ==
    pc = "done" =>
        /\ \A p \in ChainParams : lines = ChainLines(p) => result = ChainExpected(p, 1)
        /\ lines = splitLines(ExampleIfTrue) => result = "A"
        /\ lines = splitLines(ExampleElse) => result = "B"

\* the chain IF 1 == 2 / ELSE IF 1 == 1 / ELSE has returned its second body
C4_Witness ==
    /\ pc = "done"
    /\ lines = ChainLines([conds |-> <<"1 == 2", "1 == 1">>, hasElse |-> TRUE,
                           wrapped |-> FALSE])
    /\ result = "B2"

\* C5: an ELSE IF processed on a frame of which a branch has matched leaves
\* the frame suppressed and evaluates no condition.
C5_ElseIfAfterMatchSuppresses ==
    [][(AtLine /\ Len(executionStack) > 1 /\ Top.metCondition /\ Dispatched = "ELSE IF")
          => /\ Len(executionStack') = Len(executionStack)
             /\ executionStack'[Len(executionStack')].ignore
             /\ evals' = evals]_vars

\* an ELSE IF with a true condition has just been processed after a true IF
C5_Witness ==
    /\ i = 3
    /\ lines[1] = "IF 1 == 1"
    /\ lines[2] = "ELSE IF 1 == 1"
    /\ Top.ignore
    /\ Top.metCondition
    /\ evals = 1

\* C6: the script IF 1==1 / SAY "A" / ELSE IF 1==1 / SAY "B" / END returns "A".
C6_NoSpaceConditionSaysA ==
    (pc = "done" /\ lines = splitLines(ExampleNoSpace)) => result = "A"

\* the marker of an ELSE IF or ELSE that has no IF
Marker(d) == IF d = "ELSE IF" THEN "[Error: ELSE IF without IF]" ELSE "[Error: ELSE without IF]"

\* C7: an ELSE or ELSE IF processed at depth 1 appends its error marker,
\* evaluates no condition, leaves the stack as the base frame alone, and the
\* loop goes on with the next line.
C7_ElseWithoutIf ==
    [][(AtLine /\ Len(executionStack) = 1 /\ Dispatched \in {"ELSE", "ELSE IF"})
          => /\ outputBuffer' = outputBuffer \o Marker(Dispatched)
             /\ executionStack' = <<BaseFrame>>
             /\ executionStack' = executionStack
             /\ evals' = evals
             /\ pc' = "loop"
             /\ i' = i + 1]_vars

\* an ELSE, an ELSE IF and then a SAY have been processed at depth 1
C7_Witness ==
    /\ i = 4
    /\ lines = <<"ELSE", "ELSE IF 1 == 1", "SAY \"A\"">>
    /\ executionStack = <<BaseFrame>>
    /\ evals = 0
    /\ outputBuffer = "[Error: ELSE without IF][Error: ELSE IF without IF]A "

\* text without one layer of surrounding double quotes
Unquoted(text) ==
    IF Char(text, 1) = "\"" /\ Char(text, Len(text)) = "\""
    THEN (IF Len(text) <= 2 THEN "" ELSE SubSeq(text, 2, Len(text) - 1))
    ELSE text

\* the arguments of the SAY lines of ls, in order, unquoted
RECURSIVE SayArguments(_)
SayArguments(ls) ==
    IF Len(ls) = 0 THEN <<>>
    ELSE (IF directive(substituteParams(Head(ls), env)) = "SAY"
          THEN <<Unquoted(trim(substring(substituteParams(Head(ls), env), 4)))>>
          ELSE <<>>)
            \o SayArguments(Tail(ls))

RECURSIVE JoinSpaces(_)
JoinSpaces(args) ==
    IF Len(args) = 0 THEN ""
    ELSE IF Len(args) = 1 THEN Head(args)
    ELSE Head(args) \o " " \o JoinSpaces(Tail(args))

NoControlLine ==
    \A k \in 1..Len(lines) :
        directive(substituteParams(lines[k], env)) \notin {"IF", "ELSE IF", "ELSE", "END"}

\* C8: a script without IF, ELSE and END lines returns the unquoted arguments
\* of its SAY lines joined by single spaces, trimmed.
C8_SayOnlyOutput ==
    (pc = "done" /\ NoControlLine) => result = trim(JoinSpaces(SayArguments(lines)))

\* two SAY lines around a SET line have been returned
C8_Witness ==
    /\ pc = "done"
    /\ lines = <<"SAY \"A\"", "SET x = 5", "SAY B c">>
    /\ result = "A B c"

\* a store exists in the host
HasStore == env.hasGlobal \/ env.hasWindow

\* a token that a condition resolves as a variable reference
IsVariableName(name) ==
    /\ Len(name) > 0
    /\ ~includes(name, " ")
    /\ ~includes(name, "\"")
    /\ ~startsWith(name, "{{")
    /\ parseFloat(name).t = "nan"
    /\ toLowerCase(name) \notin {"true", "false", "random"}

\* the name and the value of SET <name> = <value>, eq the index of its "="
SetNameAt(arg, eq) == trim(SubSeq(arg, 1, eq))
SetValueAt(arg, eq) == Unquoted(trim(substring(arg, eq + 1)))
SetName(line) == SetNameAt(substring(line, 4), indexOf(substring(line, 4), "="))
SetValue(line) == SetValueAt(substring(line, 4), indexOf(substring(line, 4), "="))
OneEquals(line) == Len(splitOn(substring(line, 4), "=")) = 2

\* lines[i] is a SET <name> = <value> that is executed, in a host with a store
ActiveSet ==
    /\ AtLine
    /\ ~Top.ignore
    /\ Dispatched = "SET"
    /\ OneEquals(lines[i])
    /\ IsVariableName(SetName(lines[i]))
    /\ HasStore

\* C9: after an executed SET x = v a condition that names x resolves it to
\* the value written, coerced as on every read; so SET x = 5 / IF x == 5 /
\* SAY "A" / END returns "A".
C9_SetThenRead ==
    [][/\ ActiveSet =>
            SameValue(resolve(Str(SetName(lines[i])), State', env, 0),
                      normalizeValue(SetValue(lines[i])))
       /\ (pc' = "done" /\ lines = splitLines(ExampleSet) /\ HasStore) => result' = "A"]_vars

\* SET x = 5 has been executed and IF x == 5 has pushed an active frame
C9_Witness ==
    /\ i = 3
    /\ lines = splitLines(ExampleSet)
    /\ HasStore
    /\ SameValue(resolve(Str("x"), State, env, 0), Num(10))
    /\ Top = [ignore |-> FALSE, metCondition |-> TRUE]

\* the name and the raw value of SETVAR <name> <value>, sp the index of the blank
SetvarNameAt(content, sp) == trim(SubSeq(content, 1, sp))
SetvarRawAt(content, sp) == trim(substring(content, sp + 1))
SetvarName(line) ==
    SetvarNameAt(trim(substring(line, 7)), indexOf(trim(substring(line, 7)), " "))
SetvarRaw(line) ==
    SetvarRawAt(trim(substring(line, 7)), indexOf(trim(substring(line, 7)), " "))

\* lines[i] is a SETVAR <name> <value> that is executed, in a host with a store
ActiveSetvar ==
    /\ AtLine
    /\ ~Top.ignore
    /\ Dispatched = "SETVAR"
    /\ includes(trim(substring(lines[i], 7)), " ")
    /\ IsVariableName(SetvarName(lines[i]))
    /\ HasStore

\* C10: after an executed SETVAR a condition that names the variable resolves
\* it to the typed value SETVAR inferred: a boolean for true / false in any
\* letter case, a number for a numeric literal, the string for a quoted or
\* fallback string.
C10_SetvarRoundTrip ==
    [][ActiveSetvar =>
          SameValue(resolve(Str(SetvarName(lines[i])), State', env, 0),
                    inferValue(SetvarRaw(lines[i])))]_vars

(***************************************************************************)
(* Properties of the expression evaluator (ExprSpec)                       *)
(***************************************************************************)
\* the top frame after the step
TopAfter == executionStack'[Len(executionStack')]

\* lines[i] is an IF met in an active frame: its condition is evaluated
ActiveIf == AtLine /\ ~Top.ignore /\ Dispatched = "IF"

\* the condition of the IF at lines[i], and its <<left, operator, right>>
CondText == withLastMessage(trim(substring(substituteParams(lines[i], env), 3)), env)
CondOperands == operands(matchTokens(CondText))

\* the step evaluates the deterministic condition <<left, operator, right>>
EvaluatesOperands ==
    /\ ActiveIf
    /\ Len(CondOperands) = 3
    /\ Draws(lines[i]) = {<<0, 0>>}

\* the name a variable reference stands for: {{getvar::name}}, {{name}} or name
RefNameIn(inner) ==
    trim(IF startsWith(inner, "getvar::") THEN substring(inner, 8) ELSE inner)
RefName(tok) ==
    IF startsWith(tok, "{{") /\ endsWith(tok, "}}")
    THEN RefNameIn(trimStart(SubSeq(tok, 3, Len(tok) - 2)))
    ELSE tok

\* the operand is a variable reference (no literal, no keyword)
IsReference(val) ==
    /\ val.t = "str"
    /\ ~(startsWith(val.v, "\"") /\ endsWith(val.v, "\""))
    /\ parseFloat(val.v).t = "nan"
    /\ toLowerCase(val.v) \notin {"true", "false", "random"}

\* a store of the host holds the name
IsStored(name) ==
    \/ env.hasGlobal /\ name \in DOMAIN globalVars
    \/ env.hasWindow /\ name \in DOMAIN windowVars

\* the string the host holds for a stored name
StoredText(name) ==
    IF env.hasGlobal /\ name \in DOMAIN globalVars THEN globalVars[name] ELSE windowVars[name]

\* the coercion of a stored string: a number when it looks numeric, a boolean
\* when it is true or false in any letter case, else the string
CoercedAnyCase(val) ==
    IF parseFloat(val).t = "num" /\ isFinite(Str(val)) THEN parseFloat(val)
    ELSE IF toLowerCase(val) = "true" THEN Bool(TRUE)
    ELSE IF toLowerCase(val) = "false" THEN Bool(FALSE)
    ELSE Str(val)

\* C11: a condition that names a stored variable compares the stored string
\* coerced to a number when it looks numeric, to a boolean when it is true or
\* false in any letter case, and left a string otherwise.
C11_ReadCoercion ==
    [][(EvaluatesOperands /\ IsReference(CondOperands[1]) /\ IsStored(CondOperands[1].v))
          => /\ SameValue(resolve(CondOperands[1], State, env, 0),
                          CoercedAnyCase(StoredText(CondOperands[1].v)))
             /\ (~TopAfter.ignore)
                  = applyOperator(CondOperands[2],
                                  CoercedAnyCase(StoredText(CondOperands[1].v)),
                                  resolve(CondOperands[3], State, env, 0))]_vars

\* the operand is a reference to a name no store of the host holds
IsAbsentReference(val) == IsReference(val) /\ ~IsStored(RefName(val.v))

\* the value of an operand, a reference to an absent name taken as 0
ZeroIfAbsent(val) == IF IsAbsentReference(val) THEN Num(0) ELSE resolve(val, State, env, 0)

\* C12: in a condition, a reference to a name that no store holds resolves to
\* the number 0, no operand value is null, and the condition has the value
\* the operator gives with 0 in the place of the absent name.
C12_AbsentResolvesToZero ==
    [][EvaluatesOperands
          => /\ \A k \in {1, 3} :
                   /\ resolve(CondOperands[k], State, env, 0).t # "null"
                   /\ IsAbsentReference(CondOperands[k])
                        => SameValue(resolve(CondOperands[k], State, env, 0), Num(0))
             /\ (~TopAfter.ignore)
                  = applyOperator(CondOperands[2], ZeroIfAbsent(CondOperands[1]),
                                  ZeroIfAbsent(CondOperands[3]))]_vars

\* IF y == 0 has been evaluated to true in a host whose store does not hold y
C12_Witness ==
    /\ i = 2
    /\ lines[1] = "IF y == 0"
    /\ HasStore
    /\ ~IsStored("y")
    /\ evals = 1
    /\ Top = [ignore |-> FALSE, metCondition |-> TRUE]

\* the frame an IF pushes when its condition is true, and when it is false
TakenFrame == [ignore |-> FALSE, metCondition |-> TRUE]
SkippedFrame == [ignore |-> TRUE, metCondition |-> FALSE]

\* C13: whatever Math.random() draws, IF RANDOM < 0 is false and IF RANDOM < 1
\* is true (likewise RANDOM >= 1 and RANDOM >= 0), and the scripts return ""
\* and "A"; the two RANDOM of one condition are drawn apart, so RANDOM == RANDOM
\* and RANDOM < RANDOM can each come out true and come out false.
C13_RandomRange ==
    [][/\ (ActiveIf /\ CondText \in {"RANDOM < 0", "RANDOM >= 1"}) => TopAfter = SkippedFrame
       /\ (ActiveIf /\ CondText \in {"RANDOM < 1", "RANDOM >= 0"}) => TopAfter = TakenFrame
       /\ (pc' = "done" /\ lines = splitLines(CondScript("RANDOM < 0"))) => result' = ""
       /\ (pc' = "done" /\ lines = splitLines(CondScript("RANDOM < 1"))) => result' = "A"
       /\ (ActiveIf /\ CondText \in {"RANDOM == RANDOM", "RANDOM < RANDOM"})
            => /\ {parseExpression(CondText, State, env, rnd) : rnd \in Draws(lines[i])}
                    = BOOLEAN
               /\ TopAfter \in {TakenFrame, SkippedFrame}]_vars

\* IF RANDOM == RANDOM has come out false: its two draws differed
C13_Witness ==
    /\ i = 2
    /\ lines[1] = "IF RANDOM == RANDOM"
    /\ evals = 1
    /\ Top = SkippedFrame

\* the text needle occurs in the text hay, letter case apart
OccursIgnoringCase(needle, hay) ==
    \E k \in 1..(Len(hay) - Len(needle) + 1) :
        toLowerCase(SubSeq(hay, k, k + Len(needle) - 1)) = toLowerCase(needle)

\* C14: a condition whose operator is CONTAINS or HAS is true exactly when the
\* string form of its right operand occurs, letter case apart, in the string
\* form of its left operand; IF "Hello World" CONTAINS "world" / SAY "A" / END
\* returns "A".
C14_ContainsIgnoresCase ==
    [][/\ (EvaluatesOperands /\ CondOperands[2] \in {"CONTAINS", "HAS"})
            => (TopAfter = TakenFrame)
                 = OccursIgnoringCase(toString(resolve(CondOperands[3], State, env, 0)),
                                      toString(resolve(CondOperands[1], State, env, 0)))
       /\ (EvaluatesOperands /\ CondOperands[2] \in {"CONTAINS", "HAS"})
            => TopAfter \in {TakenFrame, SkippedFrame}
       /\ (pc' = "done" /\ lines = splitLines(ExampleContains)) => result' = "A"]_vars

\* the example has been returned
C14_Witness ==
    /\ pc = "done"
    /\ lines = splitLines(ExampleContains)
    /\ evals = 1
    /\ result = "A"

(***************************************************************************)
(* Properties of two calls (CallsSpec)                                     *)
(***************************************************************************)
\* no line of ls draws RANDOM or is a SET / SETVAR line
NoRandomNoWrite(ls) ==
    \A k \in 1..Len(ls) :
        /\ ~includes(toUpperCase(ls[k]), "RANDOM")
        /\ directive(substituteParams(ls[k], env)) \notin {"SET", "SETVAR"}

\* both calls run the same script, which has no RANDOM and no SET / SETVAR
SameQuietScript == other.pc # "idle" /\ other.lines = lines /\ NoRandomNoWrite(lines)

\* C15: two runs of one script that has no RANDOM and no SET / SETVAR line,
\* whether the second starts after the first has returned or while it runs,
\* change neither store at any step and return the same output.
C15_Deterministic ==
    [][SameQuietScript
          => /\ globalVars' = globalVars
             /\ windowVars' = windowVars
             /\ (pc' = "done" /\ other'.pc = "done") => result' = other'.result]_vars

\* both runs of IF x == 5 / SAY "A" / ELSE / SAY "C" have returned "A"
C15_Witness ==
    /\ pc = "done"
    /\ other.pc = "done"
    /\ lines = <<"IF x == 5", "SAY \"A\"", "ELSE", "SAY \"C\"">>
    /\ other.lines = lines
    /\ globalVars = XIsFive
    /\ result = "A"
    /\ other.result = "A"

(***************************************************************************)
(* Properties of the handler and of malformed scripts (HandlerSpec)        *)
(***************************************************************************)
\* the collaborators of the host work
Working == env.failing = {}

\* the line as the loop dispatches it
Substituted == substituteParams(lines[i], env)

\* lines[i] is a line the interpreter passes over: a SET whose argument does
\* not split in two at "=", a SETVAR with no value, an END at depth 1, or a
\* line that is no directive
PassedOver ==
    \/ Dispatched = "SET" /\ Len(splitOn(substring(Substituted, 4), "=")) # 2
    \/ Dispatched = "SETVAR" /\ ~includes(trim(substring(Substituted, 7)), " ")
    \/ Dispatched = "END" /\ Len(executionStack) = 1
    \/ Dispatched = "none"

\* lines[i] is an IF whose condition has fewer than 3 tokens (no operator with
\* one operand either) or an operator that is none
Unparsable ==
    /\ ActiveIf
    /\ \/ Len(CondOperands) = 0
       \/ /\ Len(CondOperands) = 3
          /\ CondOperands[2] \notin {">", "<", ">=", "<=", "==", "=", "!=", "CONTAINS", "HAS"}

\* C16: with working collaborators no line raises: the loop goes on to the
\* next line and the call returns the trimmed buffer.  A line that is passed
\* over (bad SET / SETVAR syntax, unmatched END, unknown directive) leaves the
\* stack, the buffer and the stores as they were; an unmatched ELSE / ELSE IF
\* appends its bracketed marker and nothing else; an IF with an unparsable
\* condition counts as false, with no output and no write.
C16_NeverRaises ==
    [][Working
          => /\ pc' # "thrown" /\ error' = ""
             /\ AtLine => (pc' = "loop" /\ i' = i + 1)
             /\ (pc = "loop" /\ ~AtLine) => (pc' = "done" /\ result' = trim(outputBuffer))
             /\ (AtLine /\ ~Top.ignore /\ PassedOver)
                  => /\ executionStack' = executionStack
                     /\ outputBuffer' = outputBuffer
                     /\ globalVars' = globalVars /\ windowVars' = windowVars
             /\ (AtLine /\ Len(executionStack) = 1 /\ Dispatched \in {"ELSE", "ELSE IF"})
                  => /\ executionStack' = executionStack
                     /\ outputBuffer' = outputBuffer \o Marker(Dispatched)
                     /\ globalVars' = globalVars /\ windowVars' = windowVars
             /\ Unparsable
                  => /\ executionStack' = Append(executionStack, SkippedFrame)
                     /\ outputBuffer' = outputBuffer
                     /\ globalVars' = globalVars /\ windowVars' = windowVars]_vars

\* SET x / ELSE has been returned as the marker of the ELSE alone
C16_Witness ==
    /\ Working
    /\ pc = "done"
    /\ lines = <<"SET x", "ELSE">>
    /\ executionStack = <<BaseFrame>>
    /\ globalVars = EmptyStore
    /\ result = "[Error: ELSE without IF]"

(***************************************************************************)
(* Termination (FairSpec)                                                  *)
(***************************************************************************)
\* C17: every call returns; until then each step takes the line at i and
\* moves i one line on, the list of lines never changes, the call returns
\* when i has passed the last line, and nothing happens after the return.
C17_Terminates ==
    /\ [][/\ AtLine => (i' = i + 1 /\ lines' = lines /\ pc' = "loop")
          /\ (pc = "loop" /\ ~AtLine)
               => (i = Len(lines) + 1 /\ pc' = "done" /\ i' = i /\ lines' = lines)
          /\ pc = "done" => FALSE]_vars
    /\ <>(pc = "done")

\* a call of three lines, one of them skipped in a suppressed branch, has returned
C17_Witness ==
    /\ pc = "done"
    /\ lines = <<"IF x == 5", "SAY \"A\"", "END">>
    /\ i = 4
    /\ evals = 1
    /\ result = ""

(***************************************************************************)
(* Failures of the store and the handler's catch (HandlerSpec)             *)
(***************************************************************************)
\* the host of env with a store whose reads and writes all fail
WithFailingStore == [env EXCEPT !.hasGlobal = TRUE, !.failing = {"get", "set"}]

\* the line at i reads or writes a variable, and the store fails at it: in a
\* host with a store the access throws, in a host without one it has no
\* backend to go to
StoreFailsAtLine ==
    /\ AtLine
    /\ IF HasStore
       THEN evaluateLogic_thrown(State, lines[i], env)
                \in {ErrorMessage("get"), ErrorMessage("set")}
       ELSE evaluateLogic_thrown(State, lines[i], WithFailingStore) # ""

\* C18: a step at a line whose read or write of a variable fails at the
\* store leaves the call by an exception: it does not carry on with a
\* default value or without the write.
C18_StoreFailurePropagates == [][StoreFailsAtLine => pc' = "thrown"]_vars

\* C19: an exception raised by the call is followed by the handler's return
\* of exactly "[Logic Error: " + message + "]", whatever had been said before
\* it, and a call the handler has answered for in this way stays answered.
C19_CatchReplacesOutput ==
    [][/\ pc = "thrown"
            => (pc' = "handled" /\ result' = "[Logic Error: " \o error \o "]")
       /\ pc' = "handled"
            => (pc = "thrown" /\ error' = error /\ error # ""
                  /\ result' = "[Logic Error: " \o error' \o "]")
       /\ pc = "handled" => FALSE]_vars

\* SAY "A" had been said when SET x = 5 failed at the store; the handler has
\* returned the error alone
C19_Witness ==
    /\ pc = "handled"
    /\ lines = <<"SAY \"A\"", "SET x = 5", "IF x == 5", "SAY \"B\"", "END">>
    /\ i = 2
    /\ outputBuffer = "A "
    /\ error = "set failed"
    /\ result = "[Logic Error: set failed]"

(***************************************************************************)
(* Overlapping calls (CallsSpec)                                           *)
(***************************************************************************)
\* the locals of the first call
Locals == <<lines, i, executionStack, outputBuffer, pc, result>>

\* the second call takes a step of its loop
OtherSteps == other.pc = "loop" /\ other'.pc = "loop" /\ other'.i = other.i + 1

\* C20: a step that changes the locals of one call leaves those of the other
\* as they are, the line list of a call never changes, and the stack and the
\* buffer a call has after a line are those its own loop body makes of its
\* own stack and buffer and the store.
C20_CallsOwnTheirState ==
    [][/\ other' # other => Locals' = Locals
       /\ Locals' # Locals => other' = other
       /\ lines' = lines
       /\ other.pc # "idle" => other'.lines = other.lines
       /\ OtherSteps
            => \E rnd \in Draws(other.lines[other.i]) :
                  \E st \in {evaluateLogic_line(OtherState, other.lines[other.i], env, rnd)} :
                      /\ other'.executionStack = st.executionStack
                      /\ other'.outputBuffer = st.outputBuffer
       /\ (AtLine /\ i' = i + 1)
            => \E rnd \in Draws(lines[i]) :
                  \E st \in {evaluateLogic_line(State, lines[i], env, rnd)} :
                      /\ executionStack' = st.executionStack
                      /\ outputBuffer' = st.outputBuffer]_vars

\* the first call is inside its IF and has said A, the second has set x and
\* said B on the base frame
C20_Witness ==
    /\ pc = "loop"
    /\ lines = <<"IF x == 5", "SAY \"A\"", "END">>
    /\ i = 3
    /\ Len(executionStack) = 2
    /\ outputBuffer = "A "
    /\ other.pc = "loop"
    /\ other.lines = <<"SET x = 5", "SAY \"B\"">>
    /\ other.i = 3
    /\ other.executionStack = <<BaseFrame>>
    /\ other.outputBuffer = "B "

\* the top frame of the second call, and the line it is about to process
OtherTop == other.executionStack[Len(other.executionStack)]
OtherAtLine == other.pc = "loop" /\ other.i <= Len(other.lines)

\* the line is a SET or SETVAR that writes a variable when it is executed
Writes(line) ==
    \/ directive(line) = "SET" /\ OneEquals(line) /\ IsVariableName(SetName(line))
    \/ /\ directive(line) = "SETVAR"
       /\ includes(trim(substring(line, 7)), " ")
       /\ IsVariableName(SetvarName(line))

\* the name and the value such a line writes
WrittenName(line) == IF directive(line) = "SET" THEN SetName(line) ELSE SetvarName(line)
WrittenValue(line) ==
    IF directive(line) = "SET" THEN normalizeValue(SetValue(line))
    ELSE normalizeValue(toString(inferValue(SetvarRaw(line))))

\* a step of the first call, of the second call
FirstSteps == AtLine /\ i' = i + 1
SecondSteps == OtherAtLine /\ other'.i = other.i + 1

\* C21: a write by either call sets the variable in the one store whatever
\* the other call wrote before, the store changes at no other step (so the
\* value that remains is that of the last write), and a condition evaluated
\* by either call has the value it has in the store as it is then.
C21_StoreIsShared ==
    [][/\ (FirstSteps /\ ~Top.ignore /\ Writes(lines[i]))
            => SameValue(resolve(Str(WrittenName(lines[i])), State', env, 0),
                         WrittenValue(lines[i]))
       /\ (SecondSteps /\ ~OtherTop.ignore /\ Writes(other.lines[other.i]))
            => SameValue(resolve(Str(WrittenName(other.lines[other.i])), State', env, 0),
                         WrittenValue(other.lines[other.i]))
       /\ <<globalVars, windowVars>>' # <<globalVars, windowVars>>
            => \/ FirstSteps /\ ~Top.ignore /\ Writes(lines[i])
               \/ SecondSteps /\ ~OtherTop.ignore /\ Writes(other.lines[other.i])
       /\ (FirstSteps /\ ActiveIf /\ Draws(lines[i]) = {<<0, 0>>})
            => (~TopAfter.ignore) = parseExpression(CondText, State, env, <<0, 0>>)
       /\ (SecondSteps /\ ~OtherTop.ignore /\ directive(other.lines[other.i]) = "IF"
             /\ Draws(other.lines[other.i]) = {<<0, 0>>})
            => (~other'.executionStack[Len(other'.executionStack)].ignore)
                 = parseExpression(trim(substring(other.lines[other.i], 3)),
                                   OtherState, env, <<0, 0>>)]_vars

\* the first call has taken IF x == 7 on the 7 that the second call, started
\* after it, wrote
C21_Witness ==
    /\ lines = <<"IF x == 7", "SAY \"S\"", "END">>
    /\ i = 3
    /\ outputBuffer = "S "
    /\ other.lines = <<"SETVAR x 7">>
    /\ other.i = 2
    /\ globalVars = [k \in {"x"} |-> "7"]

\* C22: a call starts at its first line on a stack that holds the base frame
\* alone and with an empty output buffer, whatever the call before it has
\* left, and its start changes neither store; what it then does on a line
\* follows from its own stack and buffer and the store.
C22_CallStartsFresh ==
    /\ executionStack = <<BaseFrame>> /\ outputBuffer = "" /\ i = 1
    /\ [][/\ (other.pc = "idle" /\ other'.pc # "idle")
               => /\ other'.executionStack = <<BaseFrame>>
                  /\ other'.outputBuffer = ""
                  /\ other'.i = 1
                  /\ other'.pc = "loop"
                  /\ <<globalVars, windowVars>>' = <<globalVars, windowVars>>
          /\ (pc = "done" /\ SecondSteps)
               => \E rnd \in Draws(other.lines[other.i]) :
                     \E st \in {evaluateLogic_line(
                                   [executionStack |-> other.executionStack,
                                    outputBuffer |-> other.outputBuffer,
                                    global |-> globalVars, window |-> windowVars,
                                    evals |-> 0, substs |-> 0],
                                   other.lines[other.i], env, rnd)} :
                         /\ other'.executionStack = st.executionStack
                         /\ other'.outputBuffer = st.outputBuffer
                         /\ globalVars' = st.global
                         /\ windowVars' = st.window]_vars

\* the first call has returned with two unclosed, suppressed frames on its
\* stack; the second has said A on the base frame
C22_Witness ==
    /\ pc = "done"
    /\ lines = <<"IF 1 == 2", "IF 1 == 1">>
    /\ Len(executionStack) = 3
    /\ Top.ignore
    /\ other.pc = "loop"
    /\ other.lines = <<"SAY \"A\"">>
    /\ other.i = 2
    /\ other.executionStack = <<BaseFrame>>
    /\ other.outputBuffer = "A "

(***************************************************************************)
(* The output buffer (Spec)                                                *)
(***************************************************************************)
\* C23: at every step of the loop the buffer after the step starts with the
\* buffer before it; the return leaves the buffer as it is and gives its
\* trimmed value as the result, and until then there is no result.
C23_BufferAppendOnly ==
    [][/\ startsWith(outputBuffer', outputBuffer)
       /\ AtLine => (result' = "" /\ result = "")
       /\ (pc = "loop" /\ ~AtLine)
            => (result' = trim(outputBuffer) /\ outputBuffer' = outputBuffer)]_vars

\* an empty text and A have been said: the buffer holds both separators, the
\* value returned is trimmed
C23_Witness ==
    /\ pc = "done"
    /\ lines = <<"say \"\"", "SAY \"A\"">>
    /\ outputBuffer = " A "
    /\ result = "A"

(***************************************************************************)
(* Lines met in a suppressed scope (Spec)                                  *)
(***************************************************************************)
\* C24: a step on a line met while the top frame is suppressed does not call
\* substituteParams.
C24_NoSubstitutionWhenSuppressed ==
    [][(AtLine /\ Top.ignore) => substs' = substs]_vars

\* the frame below the top one is suppressed
ParentSuppressed == Len(executionStack) > 1 /\ executionStack[Len(executionStack) - 1].ignore

\* C25: an IF met while the top frame is suppressed pushes the frame
\* (suppressed, a branch matched) and evaluates no condition; an ELSE IF or
\* ELSE on a frame whose parent is suppressed evaluates none and leaves the
\* frame suppressed; a frame on a suppressed one is suppressed with a branch
\* matched for as long as it is on the stack.
C25_DeadBranchesStayDead ==
    [][/\ (AtLine /\ Top.ignore /\ directive(lines[i]) = "IF")
            => /\ executionStack' = Append(executionStack, IgnoredFrame)
               /\ evals' = evals
       /\ (AtLine /\ ParentSuppressed /\ Dispatched \in {"ELSE IF", "ELSE"})
            => /\ evals' = evals
               /\ Len(executionStack') = Len(executionStack)
               /\ TopAfter = IgnoredFrame
       /\ \A k \in 2..Len(executionStack') :
              executionStack'[k - 1].ignore => executionStack'[k] = IgnoredFrame]_vars

\* an IF, an ELSE IF and an ELSE, all with a true condition or none, have been
\* processed under a false IF: one condition was evaluated, the inner frame
\* is suppressed
C25_Witness ==
    /\ lines = <<"IF 1 == 2", "IF 1 == 1", "ELSE IF 1 == 1", "ELSE">>
    /\ i = 5
    /\ evals = 1
    /\ executionStack = <<BaseFrame, [ignore |-> TRUE, metCondition |-> FALSE], IgnoredFrame>>

(***************************************************************************)
(* Dispatch (HandlerSpec)                                                  *)
(***************************************************************************)
\* the line at i as the dispatch sees it: substituted, trimmed, in upper case
UpperLine == toUpperCase(trim(substituteParams(lines[i], env)))

\* C26: a line that begins with END and with none of the prefixes before it
\* in the order of dispatch is handled as END: at a depth greater than 1 it
\* pops the top frame.
C26_EndMatchedByPrefix ==
    [][(AtLine /\ Len(executionStack) > 1 /\ startsWith(UpperLine, "END"))
          => executionStack' = SubSeq(executionStack, 1, Len(executionStack) - 1)]_vars

(***************************************************************************)
(* Expressions that do not parse (ExprSpec)                                *)
(***************************************************************************)
\* the tokens of the condition of the IF at lines[i]
CondTokens == matchTokens(CondText)

\* a token made of the characters = > < ! only
IsOperatorToken(tok) ==
    Len(tok) > 0 /\ \A k \in 1..Len(tok) : Char(tok, k) \in {"=", ">", "<", "!"}

\* the condition is an operator followed by one operand
MissingLeft == Len(CondTokens) = 2 /\ IsOperatorToken(CondTokens[1])

\* C27: an IF whose condition has fewer than 3 tokens counts as false and the
\* loop goes on, unless the condition is an operator followed by one operand:
\* that one has the value the operator gives with the number 0 on its left.
C27_FewTokensFailClosed ==
    [][(ActiveIf /\ Len(CondTokens) < 3 /\ Draws(lines[i]) = {<<0, 0>>})
          => /\ pc' = "loop" /\ i' = i + 1
             /\ executionStack' = Append(executionStack, TopAfter)
             /\ IF MissingLeft
                THEN TopAfter.ignore
                       = ~applyOperator(CondTokens[1], Num(0),
                                        resolve(Str(CondTokens[2]), State, env, 0))
                ELSE TopAfter = SkippedFrame]_vars

\* IF <5 has been taken as 0 < 5 and its SAY executed
C27_Witness ==
    /\ lines = <<"IF <5", "SAY \"A\"", "END">>
    /\ i = 3
    /\ Top = TakenFrame
    /\ outputBuffer = "A "

\* the operators of the switch
KnownOperators == {">", "<", ">=", "<=", "==", "=", "!=", "CONTAINS", "HAS"}

\* values of every type an operand resolves to
SampleValues == {Num(0), Num(10), Num(-3), Str(""), Str("abc"), Str("5"), Bool(TRUE), Bool(FALSE)}

\* the tokens of the condition of the ELSE IF at lines[i]
ElseIfTokens ==
    matchTokens(withLastMessage(trim(substring(substituteParams(lines[i], env), 8)), env))

\* the second of three or more tokens is no operator of the switch
UnknownOperator(toks) == Len(toks) >= 3 /\ toks[2] \notin KnownOperators

\* C28: an operator that is none of the nine of the switch gives false on
\* every pair of operands; an IF that carries one pushes a suppressed frame
\* with no branch matched, an ELSE IF that carries one leaves its frame
\* suppressed and the record of a matched branch as it was.
C28_UnknownOperatorIsFalse ==
    [][/\ (ActiveIf /\ UnknownOperator(CondTokens))
            => /\ \A v1, v2 \in SampleValues : ~applyOperator(CondTokens[2], v1, v2)
               /\ executionStack' = Append(executionStack, SkippedFrame)
       /\ (AtLine /\ Len(executionStack) > 1 /\ Dispatched = "ELSE IF"
             /\ UnknownOperator(ElseIfTokens))
            => /\ \A v1, v2 \in SampleValues : ~applyOperator(ElseIfTokens[2], v1, v2)
               /\ Len(executionStack') = Len(executionStack)
               /\ TopAfter = [ignore |-> TRUE, metCondition |-> Top.metCondition]]_vars

\* IF 1 == 2 / ELSE IF "abc" has "b": the ELSE IF was evaluated and counts as
\* false, its SAY was skipped
C28_Witness ==
    /\ lines = <<"IF 1 == 2", "ELSE IF \"abc\" has \"b\"", "SAY \"A\"", "END">>
    /\ i = 4
    /\ evals = 2
    /\ Top = SkippedFrame
    /\ outputBuffer = ""

(***************************************************************************)
(* SET (Spec)                                                              *)
(***************************************************************************)
\* lines[i] is a SET that is executed, its argument after the keyword
ExecutedSet == AtLine /\ ~Top.ignore /\ Dispatched = "SET"
SetArgument == substring(substituteParams(lines[i], env), 4)

\* C29: an executed SET whose argument holds a '=' writes the text after the
\* first '=', trimmed and unquoted, under the name before it, so that a
\* condition on the name then resolves to that text as read from the store;
\* an executed SET with no '=' changes neither store nor the output.
C29_SetSplitsAtFirstEquals ==
    [][/\ (ExecutedSet /\ HasStore /\ includes(SetArgument, "=")
             /\ IsVariableName(SetName(lines[i])))
            => SameValue(resolve(Str(SetName(lines[i])), State', env, 0),
                         normalizeValue(SetValue(lines[i])))
       /\ (ExecutedSet /\ ~includes(SetArgument, "="))
            => /\ <<globalVars, windowVars>>' = <<globalVars, windowVars>>
               /\ outputBuffer' = outputBuffer]_vars

(***************************************************************************)
(* One branch per chain (Spec)                                             *)
(***************************************************************************)
\* the depth of the frames that are on the stack before and after the step
CommonDepth ==
    IF Len(executionStack') < Len(executionStack)
    THEN Len(executionStack') ELSE Len(executionStack)

\* C30: after every step each frame above the base frame that is active has
\* a branch matched; a frame that has a branch matched keeps it for as long
\* as it is on the stack; and an ELSE or ELSE IF leaves its frame active only
\* if no branch of the frame had matched before, so that a chain has at most
\* one active branch, whatever ELSE and ELSE IF lines follow.
C30_OneBranchPerChain ==
    [][/\ \A k \in 2..Len(executionStack') :
              ~executionStack'[k].ignore => executionStack'[k].metCondition
       /\ \A k \in 1..CommonDepth :
              executionStack[k].metCondition => executionStack'[k].metCondition
       /\ (AtLine /\ Len(executionStack) > 1 /\ Dispatched \in {"ELSE", "ELSE IF"}
             /\ ~TopAfter.ignore)
            => ~Top.metCondition /\ Len(executionStack') = Len(executionStack)]_vars

\* IF 1 == 2 / ELSE / ELSE / SAY "A": the first ELSE opened its branch, the
\* second closed it again and the SAY was skipped
C30_Witness ==
    /\ lines = <<"IF 1 == 2", "ELSE", "ELSE", "SAY \"A\"">>
    /\ i = 5
    /\ executionStack = <<BaseFrame, IgnoredFrame>>
    /\ outputBuffer = ""

(***************************************************************************)
(* The base frame (Spec)                                                   *)
(***************************************************************************)
\* the line at i after substitution
Line == substituteParams(lines[i], env)

\* lines[i] is met at depth 1
AtDepthOne == AtLine /\ Len(executionStack) = 1

\* C31: before and after every step the bottom frame is the base frame
\* (active, no branch matched), and a SAY, SET or SETVAR met at depth 1 is
\* executed: the SAY appends its text and a blank, the SET and the SETVAR
\* write their variable.
C31_BaseFrameUntouched ==
    [][/\ executionStack[1] = BaseFrame
       /\ executionStack'[1] = BaseFrame
       /\ (AtDepthOne /\ Dispatched = "SAY")
            => outputBuffer' = outputBuffer \o Unquoted(trim(substring(Line, 4))) \o " "
       /\ (AtDepthOne /\ Dispatched = "SET" /\ OneEquals(lines[i]) /\ HasStore
             /\ IsVariableName(SetName(lines[i])))
            => SameValue(resolve(Str(SetName(lines[i])), State', env, 0),
                         normalizeValue(SetValue(lines[i])))
       /\ (AtDepthOne /\ Dispatched = "SETVAR" /\ includes(trim(substring(lines[i], 7)), " ")
             /\ HasStore /\ IsVariableName(SetvarName(lines[i])))
            => SameValue(resolve(Str(SetvarName(lines[i])), State', env, 0),
                         normalizeValue(toString(inferValue(SetvarRaw(lines[i])))))]_vars

\* a false IF has been closed, an ELSE IF met without an IF, and the SAY
\* after them executed on the base frame
C31_Witness ==
    /\ lines = <<"IF 1 == 2", "END", "ELSE IF 1 == 1", "SAY \"A\"">>
    /\ i = 5
    /\ executionStack = <<BaseFrame>>
    /\ outputBuffer = "[Error: ELSE IF without IF]A "

MarkerAt(d, depth) == IF depth = 1 /\ d \in {"ELSE IF", "ELSE"} THEN Marker(d) ELSE ""

\* C33: a step on a SAY, SET or SETVAR line or on a line that matches no
\* directive leaves the stack as it is; a step on an IF, ELSE IF, ELSE or END
\* line leaves both stores as they are and appends to the output nothing but
\* the marker of an ELSE or ELSE IF met at depth 1; the output changes on SAY
\* lines and by those markers only, the stores on SET and SETVAR lines only.
C33_FrameEffects ==
    [][AtLine =>
          /\ Dispatched \in {"SAY", "SET", "SETVAR", "none"}
               => executionStack' = executionStack
          /\ Dispatched \in {"IF", "ELSE IF", "ELSE", "END"}
               => /\ <<globalVars, windowVars>>' = <<globalVars, windowVars>>
                  /\ outputBuffer' = outputBuffer \o MarkerAt(Dispatched, Len(executionStack))
          /\ outputBuffer' # outputBuffer
               => Dispatched = "SAY" \/ MarkerAt(Dispatched, Len(executionStack)) # ""
          /\ <<globalVars, windowVars>>' # <<globalVars, windowVars>>
               => Dispatched \in {"SET", "SETVAR"}]_vars

\* a SETVAR, a line that is no directive and a SAY have been processed: the
\* stack is the base frame, the store holds f, the output is A
C33_Witness ==
    /\ pc = "done"
    /\ lines = <<"SETVAR f true", "hello", "SAY \"A\"">>
    /\ executionStack = <<BaseFrame>>
    /\ globalVars = [k \in {"f"} |-> "true"]
    /\ result = "A"

(***************************************************************************)
(* The store after an exception (HandlerSpec)                              *)
(***************************************************************************)
\* C34: the step at which an exception leaves the call and the step at which
\* the handler turns it into the error string leave both stores as they are,
\* so what SET and SETVAR lines wrote before the exception stays written.
C34_NoRollback ==
    [][(pc' \in {"thrown", "handled"})
          => <<globalVars, windowVars>>' = <<globalVars, windowVars>>]_vars

\* SET x = 5 was executed, then the read of x in IF x == 5 failed: the handler
\* has returned the error string and x is still 5 in the store
C34_Witness ==
    /\ pc = "handled"
    /\ lines = <<"SAY \"A\"", "SET x = 5", "IF x == 5", "SAY \"B\"", "END">>
    /\ i = 3
    /\ error = "get failed"
    /\ result = "[Logic Error: get failed]"
    /\ globalVars = [k \in {"x"} |-> "5"]

(***************************************************************************)
(* Conditions of more than three tokens (ExprSpec)                         *)
(***************************************************************************)
\* the first three tokens of the condition, as a condition of their own
FirstThree == CondTokens[1] \o " " \o CondTokens[2] \o " " \o CondTokens[3]

\* C35: an IF whose condition has more than three tokens has the value its
\* first three tokens give as left operand, operator and right operand, the
\* value of the condition made of those three alone; it is evaluated like
\* any other, not rejected.
C35_FirstThreeTokensDecide ==
    [][(ActiveIf /\ Len(CondTokens) > 3 /\ Draws(lines[i]) = {<<0, 0>>})
          => /\ TopAfter.ignore
                  = ~applyOperator(CondTokens[2],
                                   resolve(Str(CondTokens[1]), State, env, 0),
                                   resolve(Str(CondTokens[3]), State, env, 0))
             /\ TopAfter.ignore = ~parseExpression(FirstThree, State, env, <<0, 0>>)
             /\ TopAfter.metCondition = ~TopAfter.ignore
             /\ executionStack' = Append(executionStack, TopAfter)
             /\ evals' = evals + 1]_vars

\* with a = 2 and b = 0, IF a > 1 AND b > 2 has been taken as a > 1
C35_Witness ==
    /\ lines = <<"IF a > 1 AND b > 2", "SAY \"A\"", "END">>
    /\ i = 3
    /\ globalVars = AIsTwo
    /\ Top = TakenFrame
    /\ outputBuffer = "A "

(***************************************************************************)
(* The macro handler's choice of script (MacroSpec)                        *)
(***************************************************************************)
\* the string the macro was called with: data itself, the first element of
\* data.args, or data.args; <<>> when there is none or it is no string
GivenArgument ==
    IF env.data.t = "str" THEN <<env.data.v>>
    ELSE IF env.data.t # "obj" THEN <<>>
    ELSE IF env.data.args.t = "str" THEN <<env.data.args.v>>
    ELSE IF env.data.args.t = "arr" /\ Len(env.data.args.v) > 0
              /\ env.data.args.v[1].t = "str"
    THEN <<env.data.args.v[1].v>>
    ELSE <<>>

\* the saved scripts whose name is the name given
SavedAs(name) ==
    IF ~env.settings.present THEN {}
    ELSE {k \in 1..Len(env.settings.scripts) : env.settings.scripts[k].name = name}

\* C36: called with no argument, an empty one or one that is no string, the
\* handler returns "" and the interpreter is not run; called with a string
\* that has no newline and, trimmed, is the name of a saved script, it runs
\* the content of that script; called with any other string, it runs the
\* string itself.
C36_SavedScriptOrRawText ==
    [][pc = "called" =>
          IF GivenArgument \in {<<>>, <<"">>}
          THEN pc' = "returned" /\ result' = "" /\ lines' = <<>> /\ evals' = 0 /\ substs' = 0
          ELSE /\ pc' = "loop"
               /\ i' = 1
               /\ IF ~includes(GivenArgument[1], "\n") /\ SavedAs(trim(GivenArgument[1])) # {}
                  THEN \E k \in SavedAs(trim(GivenArgument[1])) :
                          lines' = splitLines(env.settings.scripts[k].content)
                  ELSE lines' = splitLines(GivenArgument[1])]_vars

\* called with " greet " in an array of arguments, the handler has run the
\* saved script greet
C36_Witness ==
    /\ pc = "done"
    /\ env.data = Obj(Arr(<<Str(" greet ")>>))
    /\ lines = <<"SAY \"Hi\"">>
    /\ result = "Hi"

(***************************************************************************)
(* C37.  registerLogicMacro registers once or retries once                 *)
(***************************************************************************)
\* a step that is a run of registerLogicMacro
RunStep == registration'.host = registration.host /\ registration' # registration

\* a registry the search finds takes the macro, or context.registerMacro does
Available ==
    \/ /\ registration.host.macros \in {"register", "registry"}
       /\ registration.host.onWindow \/ registration.host.getContext = "works"
    \/ /\ registration.host.legacy = "works"
       /\ registration.host.getContext = "works"

\* C37: a run of registerLogicMacro either registers the macro once and sets
\* no timer, or registers nothing and sets one timer of 1000 ms, the runs an
\* exception ends included; once the macro is registered no run follows; and
\* when from some moment on the host always has a registry that takes the
\* macro, the macro gets registered.
C37_RegisterOnceOrRetryOnce ==
    /\ [][RunStep =>
            \/ /\ registration'.registered = registration.registered + 1
               /\ registration'.pending = registration.pending - 1
               /\ registration'.delay = registration.delay
            \/ /\ registration'.registered = registration.registered
               /\ registration'.pending = registration.pending
               /\ registration'.delay = RetryDelay
               /\ registration'.last \in {"retry", "caught"}]_vars
    /\ [][registration.registered > 0 =>
            /\ registration.pending = 0
            /\ registration'.registered = registration.registered
            /\ registration'.last = registration.last]_vars
    /\ (<>[]Available => <>(registration.registered = 1))

\* the macro is registered by context.registerMacro in a host whose
\* macros.register throws, after a run that has set a timer
C37_Witness ==
    /\ registration.registered = 1
    /\ registration.pending = 0
    /\ registration.last = "legacy"
    /\ registration.delay = RetryDelay
    /\ registration.host.macros = "registerThrows"

(***************************************************************************)
(* C38.  The names of the library stay distinct                            *)
(***************************************************************************)
\* no two scripts of the list have the same name
DistinctNames(scripts) ==
    \A k, l \in 1..Len(scripts) : scripts[k].name = scripts[l].name => k = l

\* the name in the editor is the name of a script that is not the selected one
NameOfAnother ==
    \E k \in 1..Len(library.scripts) :
        /\ k # library.selectedScriptIndex + 1
        /\ library.scripts[k].name = trim(library.name)

\* the step is a click on the save button: no other handler shows a toast
SaveStep == library' # library /\ library'.toast # "none"

\* C38: from a library of distinct names, whatever is selected, started,
\* typed, saved and deleted, the names of the saved scripts stay distinct;
\* a save with an empty name, or with the name of a script other than the
\* selected one, is rejected: it leaves the list and the selection as they are.
C38_NamesStayDistinct ==
    /\ []DistinctNames(library.scripts)
    /\ [][SaveStep /\ (trim(library.name) = "" \/ NameOfAnother) =>
            /\ library'.scripts = library.scripts
            /\ library'.selectedScriptIndex = library.selectedScriptIndex
            /\ library'.toast # "Script saved"]_vars

\* a save of the name of the second script, with the first one selected,
\* has been rejected
C38_Witness ==
    /\ library.toast = "A script with this name already exists"
    /\ library.selectedScriptIndex = 0
    /\ Len(library.scripts) = 2
    /\ library.scripts[2].name = trim(library.name)
    /\ library.scripts[1].name # library.scripts[2].name

=============================================================================
